---- MODULE Spec2Model ----
(***************************************************************************)
(* Banking workflow automation: the account-opening pipeline of            *)
(* backend/app.py, the rules engine of backend/rules_engine.py, the        *)
(* validator of backend/ai_validator.py and the integration orchestrator   *)
(* of backend/integrations.py.                                             *)
(*                                                                         *)
(* Numbers that the program keeps as floats are kept in hundredths: an     *)
(* ai_fraud_score of 0.75 is 75, an age of 16 is 1600, a risk score of     *)
(* 30.0 is 3000.  A rule condition is the sequence of its blank-separated  *)
(* tokens.                                                                 *)
(***************************************************************************)
EXTENDS Integers, Sequences, FiniteSets, TLC

\* ------------------------------------------------------------------------
\* Bounds of the model
\* ------------------------------------------------------------------------
MaxTasks == 3
MaxApps == 1
MaxRuleOps == 1

Tasks == 1..MaxTasks
AppIds == 1..MaxApps
NoTask == 0
NoLock == 0
LockIds == 1..MaxTasks

\* ------------------------------------------------------------------------
\* Small helpers
\* ------------------------------------------------------------------------
Min(a, b) == IF a < b THEN a ELSE b

InSeq(x, s) == \E i \in 1..Len(s) : s[i] = x

RECURSIVE SumSeq(_)
SumSeq(s) == IF s = <<>> THEN 0 ELSE Head(s) + SumSeq(Tail(s))

\* s[i..j], empty when j < i
Slice(s, i, j) == IF j < i THEN <<>> ELSE SubSeq(s, i, j)

\* Python's "sub in s" on sequences of characters
Contains(s, sub) ==
    \E i \in 1..(Len(s) - Len(sub) + 1) : SubSeq(s, i, i + Len(sub) - 1) = sub

\* ------------------------------------------------------------------------
\* models.py: the applicants' facts.  An Application keeps the key of its
\* (immutable) personal_info / employment_info / account_type.
\* ------------------------------------------------------------------------
NoIncome == -1

\* the applicants whose forms reach create_application
SubmittedApplicants == <<
    \* 1: adult, domestic, nothing unusual
    [first_name |-> <<"a","l","i","c","e">>, last_name |-> <<"r","o","e">>,
     email_domain |-> "mail.org", phone_ok |-> TRUE,
     dob_parsed |-> TRUE, age |-> 30,
     ssn |-> <<2,1,9,0,9,4,5,7,8>>, address_ok |-> TRUE, zip_ok |-> TRUE,
     citizenship |-> "US", has_employment |-> TRUE, annual_income |-> 60000,
     account_type |-> "personal_checking"],
    \* 2: minor, first name holding "demo", four +1 steps in the SSN
    [first_name |-> <<"d","e","m","o">>, last_name |-> <<"r","o","e">>,
     email_domain |-> "mail.org", phone_ok |-> TRUE,
     dob_parsed |-> TRUE, age |-> 16,
     ssn |-> <<1,2,3,4,5,0,0,0,0>>, address_ok |-> TRUE, zip_ok |-> TRUE,
     citizenship |-> "US", has_employment |-> FALSE, annual_income |-> NoIncome,
     account_type |-> "personal_checking"],
    \* 3: SSN made of one 3-digit block three times
    [first_name |-> <<"a","l","i","c","e">>, last_name |-> <<"r","o","e">>,
     email_domain |-> "mail.org", phone_ok |-> TRUE,
     dob_parsed |-> TRUE, age |-> 30,
     ssn |-> <<1,2,3,1,2,3,1,2,3>>, address_ok |-> TRUE, zip_ok |-> TRUE,
     citizenship |-> "US", has_employment |-> TRUE, annual_income |-> 60000,
     account_type |-> "personal_savings"],
    \* 4: elderly, foreign, low income
    [first_name |-> <<"a","l","i","c","e">>, last_name |-> <<"r","o","e">>,
     email_domain |-> "mail.org", phone_ok |-> TRUE,
     dob_parsed |-> TRUE, age |-> 80,
     ssn |-> <<2,1,9,0,9,4,5,7,8>>, address_ok |-> TRUE, zip_ok |-> TRUE,
     citizenship |-> "CA", has_employment |-> TRUE, annual_income |-> 10000,
     account_type |-> "personal_checking"],
    \* 5: SSN 111-11-1111
    [first_name |-> <<"a","l","i","c","e">>, last_name |-> <<"r","o","e">>,
     email_domain |-> "mail.org", phone_ok |-> TRUE,
     dob_parsed |-> TRUE, age |-> 30,
     ssn |-> <<1,1,1,1,1,1,1,1,1>>, address_ok |-> TRUE, zip_ok |-> TRUE,
     citizenship |-> "US", has_employment |-> TRUE, annual_income |-> 60000,
     account_type |-> "personal_checking"],
    \* 6: phone number of the wrong length
    [first_name |-> <<"a","l","i","c","e">>, last_name |-> <<"r","o","e">>,
     email_domain |-> "mail.org", phone_ok |-> FALSE,
     dob_parsed |-> TRUE, age |-> 30,
     ssn |-> <<2,1,9,0,9,4,5,7,8>>, address_ok |-> TRUE, zip_ok |-> TRUE,
     citizenship |-> "US", has_employment |-> TRUE, annual_income |-> 60000,
     account_type |-> "personal_checking"]
>>

\* Personal and employment facts on both sides of every test that
\* _calculate_risk_score makes: the age, the citizenship, the employment
\* (none, income None, or an income) and the SSN
ProfileAges == <<20, 21, 75, 76>>
ProfileCitizenships == <<"US", "CA">>
ProfileEmployments == <<
    [has_employment |-> FALSE, annual_income |-> NoIncome],
    [has_employment |-> TRUE, annual_income |-> NoIncome],
    [has_employment |-> TRUE, annual_income |-> 0],
    [has_employment |-> TRUE, annual_income |-> 14999],
    [has_employment |-> TRUE, annual_income |-> 15000],
    [has_employment |-> TRUE, annual_income |-> 500000],
    [has_employment |-> TRUE, annual_income |-> 500001]
>>
ProfileSsns == <<
    <<2,1,9,0,9,4,5,7,8>>, <<1,1,1,1,1,1,1,1,1>>, <<1,2,3,4,5,6,7,8,9>>
>>
RiskProfile(age, citizenship, employment, ssn) ==
    [SubmittedApplicants[1] EXCEPT
        !.age = age, !.citizenship = citizenship,
        !.has_employment = employment.has_employment,
        !.annual_income = employment.annual_income, !.ssn = ssn]
RiskProfiles ==
    [i \in 1..(Len(ProfileAges) * Len(ProfileCitizenships)
               * Len(ProfileEmployments) * Len(ProfileSsns)) |->
        LET j == i - 1
            a == j % Len(ProfileAges)
            c == (j \div Len(ProfileAges)) % Len(ProfileCitizenships)
            e == (j \div (Len(ProfileAges) * Len(ProfileCitizenships)))
                     % Len(ProfileEmployments)
            n == j \div (Len(ProfileAges) * Len(ProfileCitizenships)
                         * Len(ProfileEmployments))
        IN RiskProfile(ProfileAges[a + 1], ProfileCitizenships[c + 1],
                       ProfileEmployments[e + 1], ProfileSsns[n + 1])]

\* Every applicant of the model
Applicants == SubmittedApplicants \o RiskProfiles

ApplicantKeys == 1..Len(SubmittedApplicants)
RiskProfileKeys == (Len(SubmittedApplicants) + 1)..Len(Applicants)

\* ------------------------------------------------------------------------
\* ai_validator.py
\* ------------------------------------------------------------------------
Digits == {"0","1","2","3","4","5","6","7","8","9"}

\* _validate_name: [ok, confidence in hundredths]
_validate_name(name) ==
    IF Len(name) < 2 THEN [is_valid |-> FALSE, ai_confidence |-> 95]
    ELSE IF \E i \in 1..Len(name) : name[i] \in Digits
         THEN [is_valid |-> FALSE, ai_confidence |-> 98]
    ELSE IF \E p \in {<<"t","e","s","t">>, <<"f","a","k","e">>, <<"x","x","x","x">>,
                      <<"a","a","a","a">>, <<"n","o","n","e">>, <<"n","u","l","l">>} :
                Contains(name, p)
         THEN [is_valid |-> FALSE, ai_confidence |-> 85]
    ELSE [is_valid |-> TRUE, ai_confidence |-> 92]

\* _validate_email: the address is an EmailStr, only its domain varies
_validate_email(domain) ==
    IF domain \in {"tempmail.com", "guerrillamail.com", "mailinator.com",
                   "10minutemail.com", "throwaway.email", "fakeinbox.com"}
    THEN [is_valid |-> FALSE, ai_confidence |-> 99]
    ELSE [is_valid |-> TRUE, ai_confidence |-> 94]

\* _validate_phone, by the outcome of its length check
_validate_phone(phone_ok) ==
    IF ~phone_ok THEN [is_valid |-> FALSE, ai_confidence |-> 96]
    ELSE [is_valid |-> TRUE, ai_confidence |-> 91]

\* _validate_dob
_validate_dob(p) ==
    IF ~p.dob_parsed THEN [is_valid |-> FALSE, ai_confidence |-> 99]
    ELSE IF p.age < 0 THEN [is_valid |-> FALSE, ai_confidence |-> 99]
    ELSE IF p.age > 120 THEN [is_valid |-> FALSE, ai_confidence |-> 98]
    ELSE IF p.age < 13 THEN [is_valid |-> FALSE, ai_confidence |-> 95]
    ELSE [is_valid |-> TRUE, ai_confidence |-> 96]

AllSame(ssn) == \A i \in 1..Len(ssn) : ssn[i] = ssn[1]

\* _validate_ssn on the SSN without dashes and blanks
_validate_ssn(ssn) ==
    IF Len(ssn) # 9 THEN [is_valid |-> FALSE, ai_confidence |-> 98]
    ELSE IF AllSame(ssn) \/ ssn = <<1,2,3,4,5,6,7,8,9>>
         THEN [is_valid |-> FALSE, ai_confidence |-> 99]
    ELSE IF SubSeq(ssn, 1, 3) \in {<<0,0,0>>, <<6,6,6>>}
         THEN [is_valid |-> FALSE, ai_confidence |-> 97]
    ELSE [is_valid |-> TRUE, ai_confidence |-> 88]

\* _validate_address, by the outcome of its checks
_validate_address(address_ok) ==
    IF ~address_ok THEN [is_valid |-> FALSE, ai_confidence |-> 90]
    ELSE [is_valid |-> TRUE, ai_confidence |-> 87]

\* _validate_zip, by the outcome of its checks
_validate_zip(zip_ok) ==
    IF ~zip_ok THEN [is_valid |-> FALSE, ai_confidence |-> 96]
    ELSE [is_valid |-> TRUE, ai_confidence |-> 89]

validate_personal_info(p) ==
    << _validate_name(p.first_name), _validate_name(p.last_name),
       _validate_email(p.email_domain), _validate_phone(p.phone_ok),
       _validate_dob(p), _validate_ssn(p.ssn),
       _validate_address(p.address_ok), _validate_zip(p.zip_ok) >>

\* number of i with digits[i+1] = digits[i] + 1
SequentialCount(digits) ==
    Cardinality({i \in 1..(Len(digits) - 1) : digits[i + 1] = digits[i] + 1})

_is_sequential(digits) ==
    IF Len(digits) < 3 THEN FALSE ELSE SequentialCount(digits) >= 4

FailedCount(results) ==
    Cardinality({i \in 1..Len(results) : ~results[i].is_valid})

\* the "matches" list of calculate_fraud_score, in the order it is built
FraudMatches(p) ==
    (IF Len(p.ssn) = 9 /\ AllSame(p.ssn) THEN <<"repetitive_ssn">> ELSE <<>>)
    \o (IF _is_sequential(p.ssn) THEN <<"sequential_ssn">> ELSE <<>>)
    \o (IF p.email_domain \in {"tempmail.com", "guerrillamail.com", "mailinator.com"}
        THEN <<"fake_email_domain">> ELSE <<>>)
    \o (IF (IF p.dob_parsed THEN p.age ELSE 0) < 18 \/ (IF p.dob_parsed THEN p.age ELSE 0) > 100
        THEN <<"unusual_age">> ELSE <<>>)
    \o (IF \E q \in {<<"t","e","s","t">>, <<"f","a","k","e">>,
                     <<"e","x","a","m","p","l","e">>, <<"d","e","m","o">>} :
              Contains(p.first_name, q)
        THEN <<"suspicious_name">> ELSE <<>>)

MatchWeight(m) ==
    CASE m = "repetitive_ssn" -> 30
      [] m = "sequential_ssn" -> 30
      [] m = "fake_email_domain" -> 15
      [] m = "unusual_age" -> 20
      [] m = "suspicious_name" -> 25

\* calculate_fraud_score: the returned score, in hundredths
calculate_fraud_score(p) ==
    Min(FailedCount(validate_personal_info(p)) * 10
          + SumSeq([i \in 1..Len(FraudMatches(p)) |-> MatchWeight(FraudMatches(p)[i])]),
        100)

\* generate_validation_report: the fields its callers read
generate_validation_report(p) ==
    [overall_valid |-> FailedCount(validate_personal_info(p)) = 0,
     fraud_score |-> calculate_fraud_score(p),
     average_confidence |->
        SumSeq([i \in 1..8 |-> validate_personal_info(p)[i].ai_confidence]) \div 8]

\* ------------------------------------------------------------------------
\* rules_engine.py: rule conditions
\* ------------------------------------------------------------------------
\* A token of a condition: a word or symbol (k = "w"), a quoted literal
\* (k = "q", s is the text between the quotes) or a numeric literal
\* (k = "n", s its text, n its value in hundredths).
W(s) == [k |-> "w", s |-> s, n |-> 0]
Q(s) == [k |-> "q", s |-> s, n |-> 0]
N(s, n) == [k |-> "n", s |-> s, n |-> n]

\* A condition: its tokens and the length of its text in characters
Cond(length, toks) == [length |-> length, toks |-> toks]

\* BusinessRule (models.py), enabled by default
Rule(id, cond, action, priority) ==
    [rule_id |-> id, condition |-> cond, action |-> action,
     priority |-> priority, enabled |-> TRUE]

\* _load_default_rules, in the order of the list it returns
DefaultRules == <<
    Rule("AGE_VERIFICATION",
         Cond(46, <<W("age"), W("<"), N("18", 1800), W("and"), W("account_type"),
                    W("!="), Q("minor_account")>>),
         "require_cosigner", 100),
    Rule("HIGH_RISK_SSN",
         Cond(32, <<W("ssn_sequential"), W("or"), W("ssn_repetitive")>>),
         "flag_manual_review", 90),
    Rule("HIGH_INCOME_VERIFICATION",
         Cond(22, <<W("annual_income"), W(">"), N("250000", 25000000)>>),
         "require_income_documentation", 80),
    Rule("BUSINESS_ACCOUNT_EIN",
         Cond(59, <<W("account_type.startswith"), W("("), Q("business"), W(")"),
                    W("and"), W("not"), W("ein_provided")>>),
         "require_ein", 95),
    Rule("FOREIGN_ADDRESS",
         Cond(38, <<W("citizenship"), W("!="), Q("US"), W("or"), W("foreign_address")>>),
         "enhanced_kyc", 85),
    Rule("CREDIT_CHECK_THRESHOLD",
         Cond(19, <<W("overdraft_requested")>>),
         "require_credit_check", 70),
    Rule("AUTO_APPROVE_LOW_RISK",
         Cond(44, <<W("risk_score"), W("<"), N("20", 2000), W("and"),
                    W("all_verifications_passed")>>),
         "auto_approve", 50),
    Rule("SUSPICIOUS_PATTERN",
         Cond(20, <<W("ai_fraud_score"), W(">"), N("0.7", 70)>>),
         "flag_fraud_review", 100)
>>

\* text.replace('<', '&lt;').replace('>', '&gt;') on the tokens of a text
RECURSIVE EscapedToks(_)
EscapedToks(toks) ==
    IF toks = <<>> THEN <<>>
    ELSE (IF Head(toks).k = "w" /\ Head(toks).s = "<" THEN <<W("&lt"), W(";")>>
          ELSE IF Head(toks).k = "w" /\ Head(toks).s = ">" THEN <<W("&gt"), W(";")>>
          ELSE <<Head(toks)>>)
         \o EscapedToks(Tail(toks))

\* sanitize_input(rule.condition, 500) on a condition of at most 500
\* characters without a null byte: each "<" and ">" becomes four characters
sanitize_input(condition) ==
    Cond(condition.length + 3 * (Len(EscapedToks(condition.toks)) - Len(condition.toks)),
         EscapedToks(condition.toks))

\* The rules a caller of POST /rules may add, as create_business_rule hands
\* them to the engine
ExtraRules == <<
    Rule("AUTO_VERIFIED", sanitize_input(Cond(24, <<W("all_verifications_passed")>>)),
         "auto_approve", 60),
    Rule("YOUNG_ADULT", sanitize_input(Cond(8, <<W("age"), W("<"), N("21", 2100)>>)),
         "note_young_adult", 100)
>>

\* Rules handed to RulesEngine.add_rule directly: one of a priority above
\* every default rule, one of the priority of FOREIGN_ADDRESS, and one that
\* is switched off (BusinessRule.enabled = False)
EngineRules == <<
    Rule("TOP_FOREIGN", Cond(15, <<W("foreign_address")>>), "note_foreign", 120),
    Rule("CITIZENSHIP_NOTE",
         Cond(19, <<W("citizenship"), W("!="), Q("US")>>), "note_citizenship", 85),
    [Rule("OFF_FOREIGN", Cond(15, <<W("foreign_address")>>), "flag_fraud_review", 130)
        EXCEPT !.enabled = FALSE]
>>

\* Every rule object of the model; the engine's list holds keys of this book
RuleBook == DefaultRules \o ExtraRules \o EngineRules
DefaultKeys == [i \in 1..Len(DefaultRules) |-> i]
ExtraKeys == {Len(DefaultRules) + i : i \in 1..Len(ExtraRules)}
EngineKeys == {Len(DefaultRules) + Len(ExtraRules) + i : i \in 1..Len(EngineRules)}

\* Values of the fact context: a number (n, in hundredths), a boolean, a
\* string or None; s is what Python's str() makes of the value.
NumV(n, s) == [t |-> "num", n |-> n, s |-> s]
BoolV(b) == [t |-> "bool", n |-> IF b THEN 100 ELSE 0, s |-> IF b THEN "True" ELSE "False"]
StrV(s) == [t |-> "str", n |-> 0, s |-> s]
NoneV == [t |-> "none", n |-> 0, s |-> "None"]

HasTok(toks, sym) == \E i \in 1..Len(toks) : toks[i].k = "w" /\ toks[i].s = sym

\* condition.split(sym) for a symbol that is a token of its own
RECURSIVE SplitSym(_, _)
SplitSym(toks, sym) ==
    IF ~HasTok(toks, sym) THEN <<toks>>
    ELSE LET i == CHOOSE j \in 1..Len(toks) :
                     /\ toks[j].k = "w" /\ toks[j].s = sym
                     /\ \A h \in 1..(j - 1) : ~(toks[h].k = "w" /\ toks[h].s = sym)
         IN <<Slice(toks, 1, i - 1)>> \o SplitSym(Slice(toks, i + 1, Len(toks)), sym)

\* " and " / " or " occur in the text where the word stands between two tokens
HasWord(toks, word) ==
    \E i \in 2..(Len(toks) - 1) : toks[i].k = "w" /\ toks[i].s = word

\* condition.split(" and "): a separator takes the blank on either side, so
\* the token right after a separator is never one
RECURSIVE SplitWord(_, _)
SplitWord(toks, word) ==
    IF ~HasWord(toks, word) THEN <<toks>>
    ELSE LET i == CHOOSE j \in 2..(Len(toks) - 1) :
                     /\ toks[j].k = "w" /\ toks[j].s = word
                     /\ \A h \in 2..(j - 1) : ~(toks[h].k = "w" /\ toks[h].s = word)
         IN <<Slice(toks, 1, i - 1)>> \o SplitWord(Slice(toks, i + 1, Len(toks)), word)

\* "left in context" for a stripped side of a comparison
IsFact(side, context) ==
    Len(side) = 1 /\ side[1].k = "w" /\ side[1].s \in DOMAIN context

\* float(x) succeeds: on a numeric literal, on a number or boolean fact
IsFloatText(side) == Len(side) = 1 /\ side[1].k = "n"
IsFloatValue(v) == v.t \in {"num", "bool"}

\* the text of the right side of != once blanks and quotes are stripped
Unquoted(side) == IF Len(side) = 1 THEN side[1].s ELSE "?"

\* dangerous_chars; the backtick is written "backtick"
DangerousChars == {";", "(", ")", "[", "]", "{", "}", "\\", "backtick", "$"}

\* _evaluate_condition below its length check
RECURSIVE EvalToks(_, _)
EvalToks(toks, context) ==
    LET lt == SplitSym(toks, "<")
        gt == SplitSym(toks, ">")
        ne == SplitSym(toks, "!=")
    IN
    IF \E i \in 1..Len(toks) : toks[i].s \in DangerousChars THEN FALSE
    ELSE IF HasTok(toks, "<") /\ ~HasTok(toks, ">") /\ Len(lt) = 2 THEN
        IF ~IsFact(lt[1], context) THEN FALSE
        ELSE IF ~IsFloatText(lt[2]) \/ ~IsFloatValue(context[lt[1][1].s]) THEN FALSE
        ELSE context[lt[1][1].s].n < lt[2][1].n
    ELSE IF HasTok(toks, ">") /\ ~HasTok(toks, "<") /\ Len(gt) = 2 THEN
        IF ~IsFact(gt[1], context) THEN FALSE
        ELSE IF ~IsFloatText(gt[2]) \/ ~IsFloatValue(context[gt[1][1].s]) THEN FALSE
        ELSE context[gt[1][1].s].n > gt[2][1].n
    ELSE IF HasWord(toks, "and") THEN
        \A i \in 1..Len(SplitWord(toks, "and")) : EvalToks(SplitWord(toks, "and")[i], context)
    ELSE IF HasWord(toks, "or") THEN
        \E i \in 1..Len(SplitWord(toks, "or")) : EvalToks(SplitWord(toks, "or")[i], context)
    ELSE IF HasTok(toks, "!=") /\ Len(ne) = 2 THEN
        IF IsFact(ne[1], context)
        THEN (Len(ne[2]) # 1 \/ context[ne[1][1].s].s # Unquoted(ne[2]))
        ELSE FALSE
    ELSE IF HasTok(toks, "==") THEN FALSE
    ELSE IF IsFact(toks, context) THEN
        (context[toks[1].s].t = "bool" /\ context[toks[1].s].n # 0)
        \/ (context[toks[1].s].t = "num" /\ context[toks[1].s].n # 0)
        \/ (context[toks[1].s].t = "str" /\ context[toks[1].s].s # "")
    ELSE FALSE

MaxConditionLength == 500

\* an evaluator that splits at " and " before it looks for a comparison
EvalAndFirst(condition, context) ==
    IF condition.length > MaxConditionLength THEN FALSE
    ELSE IF HasWord(condition.toks, "and")
    THEN \A i \in 1..Len(SplitWord(condition.toks, "and")) :
             EvalToks(SplitWord(condition.toks, "and")[i], context)
    ELSE EvalToks(condition.toks, context)

\* _evaluate_condition without the test of the length
EvalAnyLength(condition, context) == EvalToks(condition.toks, context)

_evaluate_condition(condition, context) ==
    IF condition.length > MaxConditionLength THEN FALSE
    ELSE EvalToks(condition.toks, context)

\* ------------------------------------------------------------------------
\* rules_engine.py: evaluation
\* ------------------------------------------------------------------------
\* calculate_age: whole years, 0 for a date of birth that does not parse
calculate_age(p) == IF p.dob_parsed THEN p.age ELSE 0

\* The characters of an SSN text: a digit stands for itself
Dash == 10
Blank == 11

\* ssn.replace("-", "").replace(" ", "")
ssn_clean(text) == SelectSeq(text, LAMBDA ch : ch # Dash /\ ch # Blank)

\* is_ssn_suspicious with the threshold of the validator's _is_sequential
SsnSuspiciousAtFour(ssn) ==
    [sequential |-> Len(ssn) = 9 /\ SequentialCount(ssn) >= 4,
     repetitive |-> Len(ssn) = 9
                    /\ (AllSame(ssn)
                        \/ (SubSeq(ssn, 4, 6) = SubSeq(ssn, 1, 3)
                            /\ SubSeq(ssn, 7, 9) = SubSeq(ssn, 1, 3)))]

\* is_ssn_suspicious on the SSN without dashes and blanks
is_ssn_suspicious(ssn) ==
    [sequential |-> Len(ssn) = 9 /\ SequentialCount(ssn) >= 5,
     repetitive |-> Len(ssn) = 9
                    /\ (AllSame(ssn)
                        \/ (SubSeq(ssn, 4, 6) = SubSeq(ssn, 1, 3)
                            /\ SubSeq(ssn, 7, 9) = SubSeq(ssn, 1, 3)))]

\* _calculate_risk_score without the cap at 100
UncappedRiskScore(app) ==
    LET p == Applicants[app.applicant]
        age == IF p.dob_parsed THEN p.age ELSE 0
    IN app.ai_fraud_score * 40
       + (IF age < 21 THEN 1000 ELSE IF age > 75 THEN 1500 ELSE 0)
       + (IF p.citizenship # "US" THEN 2000 ELSE 0)
       + (IF p.has_employment /\ p.annual_income # NoIncome /\ p.annual_income # 0
          THEN (IF p.annual_income > 500000 THEN 1000
                ELSE IF p.annual_income < 15000 THEN 1500 ELSE 0)
          ELSE 0)
       + (IF is_ssn_suspicious(p.ssn).sequential \/ is_ssn_suspicious(p.ssn).repetitive
          THEN 3000 ELSE 0)

\* _calculate_risk_score, in hundredths
_calculate_risk_score(app) ==
    LET p == Applicants[app.applicant]
        age == calculate_age(p)
        flags == is_ssn_suspicious(p.ssn)
    IN Min(app.ai_fraud_score * 40
           + (IF age < 21 THEN 1000 ELSE IF age > 75 THEN 1500 ELSE 0)
           + (IF p.citizenship # "US" THEN 2000 ELSE 0)
           + (IF p.has_employment /\ p.annual_income # NoIncome /\ p.annual_income # 0
              THEN (IF p.annual_income > 500000 THEN 1000
                    ELSE IF p.annual_income < 15000 THEN 1500 ELSE 0)
              ELSE 0)
           + (IF flags.sequential \/ flags.repetitive THEN 3000 ELSE 0),
           10000)

\* str() of a float given in hundredths: 75 is "0.75", 3000 is "30.0"
FloatStr(h) ==
    IF h % 100 = 0 THEN ToString(h \div 100) \o ".0"
    ELSE IF h % 10 = 0 THEN ToString(h \div 100) \o "." \o ToString((h % 100) \div 10)
    ELSE IF h % 100 < 10 THEN ToString(h \div 100) \o ".0" \o ToString(h % 100)
    ELSE ToString(h \div 100) \o "." \o ToString(h % 100)

\* a fact context whose all_verifications_passed looks at the status of
\* every integration result
FactContextByStatus(app) ==
    LET p == Applicants[app.applicant]
        flags == is_ssn_suspicious(p.ssn)
    IN [age |-> NumV(calculate_age(p) * 100, ToString(calculate_age(p))),
        ssn_sequential |-> BoolV(flags.sequential),
        ssn_repetitive |-> BoolV(flags.repetitive),
        annual_income |->
            IF ~p.has_employment THEN NumV(0, "0")
            ELSE IF p.annual_income = NoIncome THEN NoneV
            ELSE NumV(p.annual_income * 100, FloatStr(p.annual_income * 100)),
        citizenship |-> StrV(p.citizenship),
        account_type |-> StrV(p.account_type),
        foreign_address |-> BoolV(p.citizenship # "US"),
        ein_provided |-> BoolV(FALSE),
        overdraft_requested |-> BoolV(FALSE),
        ai_fraud_score |-> NumV(app.ai_fraud_score, FloatStr(app.ai_fraud_score)),
        risk_score |-> NumV(_calculate_risk_score(app), FloatStr(_calculate_risk_score(app))),
        all_verifications_passed |->
            BoolV(/\ Len(app.integrations) > 0
                  /\ \A i \in 1..Len(app.integrations) :
                         app.integrations[i].status = "success")]

\* the fact context that evaluate_application builds
FactContext(app) ==
    LET p == Applicants[app.applicant]
        flags == is_ssn_suspicious(p.ssn)
    IN [age |-> NumV(calculate_age(p) * 100, ToString(calculate_age(p))),
        ssn_sequential |-> BoolV(flags.sequential),
        ssn_repetitive |-> BoolV(flags.repetitive),
        annual_income |->
            IF ~p.has_employment THEN NumV(0, "0")
            ELSE IF p.annual_income = NoIncome THEN NoneV
            ELSE NumV(p.annual_income * 100, FloatStr(p.annual_income * 100)),
        citizenship |-> StrV(p.citizenship),
        account_type |-> StrV(p.account_type),
        foreign_address |-> BoolV(p.citizenship # "US"),
        ein_provided |-> BoolV(FALSE),
        overdraft_requested |-> BoolV(FALSE),
        ai_fraud_score |-> NumV(app.ai_fraud_score, FloatStr(app.ai_fraud_score)),
        risk_score |-> NumV(_calculate_risk_score(app), FloatStr(_calculate_risk_score(app))),
        all_verifications_passed |-> BoolV(Len(app.integrations) > 0)]

\* the rules taken in the order of the list, without sorting
InsertionOrder(keys) == keys

\* sorted(self.rules, key=priority, reverse=True): stable, so of two rules of
\* one priority the one that stands first in the list comes first
SortedByPriority(keys) ==
    LET Before(h, j) ==
            \/ RuleBook[keys[h]].priority > RuleBook[keys[j]].priority
            \/ RuleBook[keys[h]].priority = RuleBook[keys[j]].priority /\ h < j
        Place(j) == 1 + Cardinality({h \in 1..Len(keys) : Before(h, j)})
    IN [i \in 1..Len(keys) |-> keys[CHOOSE j \in 1..Len(keys) : Place(j) = i]]

\* the keys of the rules that trigger, in evaluation order
TriggeredKeys(keys, context) ==
    SelectSeq(SortedByPriority(keys),
              LAMBDA k : RuleBook[k].enabled
                         /\ _evaluate_condition(RuleBook[k].condition, context))

\* the risk level taken from the score alone
RiskLevelByScore(risk_score, triggered_rules) ==
    IF risk_score >= 7000 THEN "CRITICAL"
    ELSE IF risk_score >= 5000 THEN "HIGH"
    ELSE IF risk_score >= 3000 \/ Len(triggered_rules) >= 3 THEN "MEDIUM"
    ELSE "LOW"

\* _determine_risk_level
_determine_risk_level(risk_score, triggered_rules) ==
    IF risk_score >= 7000 \/ InSeq("SUSPICIOUS_PATTERN", triggered_rules) THEN "CRITICAL"
    ELSE IF risk_score >= 5000 \/ InSeq("HIGH_RISK_SSN", triggered_rules) THEN "HIGH"
    ELSE IF risk_score >= 3000 \/ Len(triggered_rules) >= 3 THEN "MEDIUM"
    ELSE "LOW"

\* _determine_next_action
_determine_next_action(actions) ==
    IF actions = <<>> THEN "proceed_to_next_step"
    ELSE IF InSeq("flag_fraud_review", actions) THEN "manual_fraud_review"
    ELSE IF InSeq("flag_manual_review", actions) THEN "manual_review"
    ELSE IF InSeq("enhanced_kyc", actions) THEN "enhanced_kyc_check"
    ELSE IF InSeq("require_credit_check", actions) THEN "credit_check"
    ELSE IF InSeq("require_cosigner", actions) THEN "require_cosigner_info"
    ELSE IF InSeq("auto_approve", actions) THEN "auto_approve"
    ELSE "proceed_to_next_step"

\* can_auto_approve without the test of the length
AutoApproveAmongActions(actions_required) == InSeq("auto_approve", actions_required)

\* can_auto_approve of evaluate_application
CanAutoApprove(actions_required) ==
    InSeq("auto_approve", actions_required) /\ Len(actions_required) = 1

\* evaluate_application: the fields of its result that the pipeline reads
evaluate_application(app, keys) ==
    LET context == FactContext(app)
        trig == TriggeredKeys(keys, context)
        triggered_rules == [i \in 1..Len(trig) |-> RuleBook[trig[i]].rule_id]
        actions_required == [i \in 1..Len(trig) |-> RuleBook[trig[i]].action]
    IN [triggered_rules |-> triggered_rules,
        actions_required |-> actions_required,
        risk_level |-> _determine_risk_level(context.risk_score.n, triggered_rules),
        next_action |-> _determine_next_action(actions_required),
        can_auto_approve |-> CanAutoApprove(actions_required)]

\* ------------------------------------------------------------------------
\* app.py: state
\* ------------------------------------------------------------------------
VARIABLES
    applications_db,    \* application id -> Application
    application_locks,  \* application id -> lock object
    lock_owner,         \* lock object -> the task that holds it, or NoTask
    lock_waiters,       \* lock object -> the tasks suspended in acquire(), in order
    db_lock,            \* the task that holds db_lock, or NoTask
    rules,              \* rules_engine.rules, as keys of RuleBook
    rule_ops,           \* number of add_rule / remove_rule calls so far
    running,            \* the task the event loop is executing, or NoTask
    pc,                 \* task -> the line it stands at
    req,                \* task -> the operation it serves and its application id
    result,             \* task -> the answer its HTTP request got
    local,              \* task -> local variables of process_application
    call                \* the last direct call of a function of the engine: its
                        \* name, its argument and what it returned

vars == <<applications_db, application_locks, lock_owner, lock_waiters, db_lock,
          rules, rule_ops, running, pc, req, call, result, local>>

\* no function has been called directly
NoCall == [fn |-> "none", arg |-> <<>>, ret |-> <<>>]

\* rules_result and credit_result before they are assigned
NoRulesResult ==
    [triggered_rules |-> <<>>, actions_required |-> <<>>, risk_level |-> "None",
     next_action |-> "None", can_auto_approve |-> FALSE]
NoScore == -1
NoIntegration ==
    [integration_name |-> "None", status |-> "None", error |-> "None",
     credit_score |-> NoScore]
\* fault: the exception that left the try block of process_application
NoLocal == [lock |-> NoLock, integration_results |-> <<>>, rules_result |-> NoRulesResult,
            credit_result |-> NoIntegration, fault |-> "None"]

\* Application(...) as create_application builds it
NewApplication(k) ==
    [applicant |-> k, status |-> "DRAFT", risk_level |-> "LOW",
     integrations |-> <<>>, rules_applied |-> <<>>,
     submitted_at |-> "None", completed_at |-> "None", updated_at |-> "created",
     ai_fraud_score |-> 0, ai_confidence |-> 0, ai_notes |-> <<>>,
     approval_decision |-> "None", decision_reason |-> "None", assigned_to |-> "None"]

\* Integration(...), with the fields the program reads later
Integration(name, status, error, credit_score) ==
    [integration_name |-> name, status |-> status, error |-> error,
     credit_score |-> credit_score]

\* an error record whose status is "error"
ErrorStatusIntegration(name, error_msg) == Integration(name, "error", error_msg, NoScore)

\* _create_error_integration
_create_error_integration(name, error_msg) == Integration(name, "failed", error_msg, NoScore)

Init ==
    /\ applications_db = <<>>
    /\ application_locks = <<>>
    /\ lock_owner = [l \in LockIds |-> NoTask]
    /\ lock_waiters = [l \in LockIds |-> <<>>]
    /\ db_lock = NoTask
    /\ rules = DefaultKeys
    /\ rule_ops = 0
    /\ running = NoTask
    /\ pc = [t \in Tasks |-> "idle"]
    /\ req = [t \in Tasks |-> [op |-> "none", app |-> 0]]
    /\ result = [t \in Tasks |-> "none"]
    /\ local = [t \in Tasks |-> NoLocal]
    /\ call = NoCall

\* The event loop runs one task at a time: a task keeps the loop from one
\* suspension to the next.
CanRun(t) == running = t \/ running = NoTask

\* Requests are numbered in the order they arrive: a new request is served by
\* the first task that has none yet
CanStart(t) ==
    /\ running = NoTask
    /\ pc[t] = "idle"
    /\ \A u \in Tasks : u < t => pc[u] # "idle"

App(t) == applications_db[req[t].app]

\* the entries of a dict without key a
Without(d, a) == [x \in DOMAIN d \ {a} |-> d[x]]
\* the dict d with d[a] = v
With(d, a, v) == [x \in DOMAIN d \cup {a} |-> IF x = a THEN v ELSE d[x]]

\* ------------------------------------------------------------------------
\* app.py: create_application, add_rule, remove_rule
\* ------------------------------------------------------------------------
\* generate_application_id hands out an id that is not in use
create_application(a, k) ==
    /\ running = NoTask
    /\ db_lock = NoTask
    /\ a \in AppIds \ DOMAIN applications_db
    /\ \A b \in AppIds : b < a => b \in DOMAIN applications_db
    /\ applications_db' = With(applications_db, a, NewApplication(k))
    /\ UNCHANGED <<application_locks, lock_owner, lock_waiters, db_lock, rules, rule_ops,
                   running, pc, req, call, result, local>>

\* create_business_rule -> RulesEngine.add_rule
add_rule(k) ==
    /\ running = NoTask
    /\ rule_ops < MaxRuleOps
    /\ rules' = Append(rules, k)
    /\ rule_ops' = rule_ops + 1
    /\ UNCHANGED <<applications_db, application_locks, lock_owner, lock_waiters, db_lock,
                   running, pc, req, call, result, local>>

\* delete_business_rule -> RulesEngine.remove_rule
remove_rule(rule_id) ==
    /\ running = NoTask
    /\ rule_ops < MaxRuleOps
    /\ rules' = SelectSeq(rules, LAMBDA k : RuleBook[k].rule_id # rule_id)
    /\ rule_ops' = rule_ops + 1
    /\ UNCHANGED <<applications_db, application_locks, lock_owner, lock_waiters, db_lock,
                   running, pc, req, call, result, local>>

\* ------------------------------------------------------------------------
\* "async with db_lock:" -- asyncio.Lock.acquire returns at once when the
\* lock is free and suspends the task otherwise
\* ------------------------------------------------------------------------
DbLockLines == {"L339", "L378", "L398", "L411", "L429", "L434", "L440", "L446", "L451",
                "L455", "L461", "L465", "L470", "L474", "L482", "L487", "L492", "L498"}

\* the first line of the block that "async with db_lock" at the line opens
Body(line) ==
    CASE line = "L339" -> "L340" [] line = "L378" -> "L379" [] line = "L398" -> "L399"
      [] line = "L411" -> "L412" [] line = "L429" -> "L430" [] line = "L434" -> "L435"
      [] line = "L440" -> "L441" [] line = "L446" -> "L447" [] line = "L451" -> "L452"
      [] line = "L455" -> "L456" [] line = "L461" -> "L462" [] line = "L465" -> "L466"
      [] line = "L470" -> "L471" [] line = "L474" -> "L475" [] line = "L482" -> "L483"
      [] line = "L487" -> "L488" [] line = "L492" -> "L493" [] line = "L498" -> "L499"

db_lock_acquire(t) ==
    /\ CanRun(t)
    /\ pc[t] \in DbLockLines
    /\ IF db_lock = NoTask
       THEN /\ db_lock' = t
            /\ pc' = [pc EXCEPT ![t] = Body(pc[t])]
            /\ running' = t
       ELSE /\ UNCHANGED <<db_lock, pc>>
            /\ running' = NoTask
    /\ UNCHANGED <<applications_db, application_locks, lock_owner, lock_waiters,
                   rules, rule_ops, req, call, result, local>>

\* what leaves a task's variables alone
OnlyTask == <<application_locks, lock_owner, lock_waiters, db_lock, rules, rule_ops>>

\* calculate_fraud_score appends a note to the application when it finds a
\* fraud pattern; generate_validation_report calls it
NotesAfterReport(app) ==
    IF FraudMatches(Applicants[app.applicant]) # <<>>
    THEN Append(app.ai_notes, "Fraud patterns detected")
    ELSE app.ai_notes

Report(t) == generate_validation_report(Applicants[App(t).applicant])

\* ------------------------------------------------------------------------
\* app.py: validate_application
\* ------------------------------------------------------------------------
\* lines 330-333: the request arrives, 404 for an unknown id
validate_L330(t, a) ==
    /\ CanStart(t)
    /\ req' = [req EXCEPT ![t] = [op |-> "validate", app |-> a]]
    /\ UNCHANGED call
    /\ IF a \in DOMAIN applications_db
       THEN /\ pc' = [pc EXCEPT ![t] = "L336"]
            /\ running' = t
            /\ UNCHANGED result
       ELSE /\ pc' = [pc EXCEPT ![t] = "done"]
            /\ result' = [result EXCEPT ![t] = "404"]
            /\ UNCHANGED running
    /\ UNCHANGED <<applications_db, local>>
    /\ UNCHANGED OnlyTask

\* line 336: generate_validation_report
validate_L336(t) ==
    /\ running = t
    /\ pc[t] = "L336"
    /\ applications_db' = [applications_db EXCEPT
                              ![req[t].app].ai_notes = NotesAfterReport(App(t))]
    /\ pc' = [pc EXCEPT ![t] = "L339"]
    /\ UNCHANGED <<running, req, call, result, local>>
    /\ UNCHANGED OnlyTask

\* lines 340-345: store the scores, leave db_lock, answer
validate_L340(t) ==
    /\ running = t
    /\ pc[t] = "L340"
    /\ db_lock = t
    /\ applications_db' = [applications_db EXCEPT
                              ![req[t].app].ai_fraud_score = Report(t).fraud_score,
                              ![req[t].app].ai_confidence = Report(t).average_confidence]
    /\ db_lock' = NoTask
    /\ pc' = [pc EXCEPT ![t] = "done"]
    /\ result' = [result EXCEPT ![t] = "200"]
    /\ running' = NoTask
    /\ UNCHANGED <<application_locks, lock_owner, lock_waiters, rules, rule_ops, req, call, local>>

\* ------------------------------------------------------------------------
\* app.py: submit_application
\* ------------------------------------------------------------------------
\* lines 359-362: the request arrives, 404 for an unknown id
submit_L359(t, a) ==
    /\ CanStart(t)
    /\ req' = [req EXCEPT ![t] = [op |-> "submit", app |-> a]]
    /\ UNCHANGED call
    /\ IF a \in DOMAIN applications_db
       THEN /\ pc' = [pc EXCEPT ![t] = "L364"]
            /\ running' = t
            /\ UNCHANGED result
       ELSE /\ pc' = [pc EXCEPT ![t] = "done"]
            /\ result' = [result EXCEPT ![t] = "404"]
            /\ UNCHANGED running
    /\ UNCHANGED <<applications_db, local>>
    /\ UNCHANGED OnlyTask

\* a submit that does not look at the status
SubmitAnyStatus(status) == TRUE

\* line 364: only a DRAFT may be submitted
SubmitAllowed(status) == status = "DRAFT"

submit_L364(t) ==
    /\ running = t
    /\ pc[t] = "L364"
    /\ IF SubmitAllowed(App(t).status)
       THEN /\ pc' = [pc EXCEPT ![t] = "L368"]
            /\ UNCHANGED <<running, result>>
       ELSE /\ pc' = [pc EXCEPT ![t] = "done"]
            /\ result' = [result EXCEPT ![t] = "400 already submitted"]
            /\ running' = NoTask
    /\ UNCHANGED <<applications_db, req, call, local>>
    /\ UNCHANGED OnlyTask

\* lines 368-375: validate first, 400 when the report is not overall_valid
submit_L368(t) ==
    /\ running = t
    /\ pc[t] = "L368"
    /\ applications_db' = [applications_db EXCEPT
                              ![req[t].app].ai_notes = NotesAfterReport(App(t))]
    /\ IF Report(t).overall_valid
       THEN /\ pc' = [pc EXCEPT ![t] = "L378"]
            /\ UNCHANGED <<running, result>>
       ELSE /\ pc' = [pc EXCEPT ![t] = "done"]
            /\ result' = [result EXCEPT ![t] = "400 validation failed"]
            /\ running' = NoTask
    /\ UNCHANGED <<req, call, local>>
    /\ UNCHANGED OnlyTask

\* lines 379-380: SUBMITTED, under db_lock
submit_L379(t) ==
    /\ running = t
    /\ pc[t] = "L379"
    /\ db_lock = t
    /\ applications_db' = [applications_db EXCEPT
                              ![req[t].app].status = "SUBMITTED",
                              ![req[t].app].submitted_at = "set"]
    /\ db_lock' = NoTask
    /\ pc' = [pc EXCEPT ![t] = "L385"]
    /\ UNCHANGED <<application_locks, lock_owner, lock_waiters, rules, rule_ops,
                   running, req, call, result, local>>

\* lines 385-391: background_tasks.add_task(process_application, id); the
\* answer is sent and the background task starts after it
submit_L385(t) ==
    /\ running = t
    /\ pc[t] = "L385"
    /\ result' = [result EXCEPT ![t] = "submitted"]
    /\ pc' = [pc EXCEPT ![t] = "L397"]
    /\ running' = NoTask
    /\ UNCHANGED <<applications_db, req, call, local>>
    /\ UNCHANGED OnlyTask

\* ------------------------------------------------------------------------
\* app.py: process_application
\* ------------------------------------------------------------------------
\* asyncio.Lock(): a lock object that nothing refers to yet
FreshLock ==
    CHOOSE l \in LockIds :
        /\ \A a \in DOMAIN application_locks : application_locks[a] # l
        /\ \A t \in Tasks : local[t].lock # l
        /\ \A m \in LockIds :
              (\A a \in DOMAIN application_locks : application_locks[a] # m)
              /\ (\A t \in Tasks : local[t].lock # m) => l <= m

\* a block that assigns fields of the application and keeps db_lock
DbBodyKeepsLock(t, line, next, app) ==
    /\ running = t
    /\ pc[t] = line
    /\ db_lock = t
    /\ applications_db' = [applications_db EXCEPT ![req[t].app] = app]
    /\ pc' = [pc EXCEPT ![t] = next]
    /\ UNCHANGED <<application_locks, lock_owner, lock_waiters, db_lock, rules, rule_ops,
                   running, req, call, result, local>>

\* a block "async with db_lock:" that assigns fields of the application
DbBody(t, line, next, app) ==
    /\ running = t
    /\ pc[t] = line
    /\ db_lock = t
    /\ applications_db' = [applications_db EXCEPT ![req[t].app] = app]
    /\ db_lock' = NoTask
    /\ pc' = [pc EXCEPT ![t] = next]
    /\ UNCHANGED <<application_locks, lock_owner, lock_waiters, rules, rule_ops,
                   running, req, call, result, local>>

\* a step that only moves the task on
Goto(t, line, next) ==
    /\ running = t
    /\ pc[t] = line
    /\ pc' = [pc EXCEPT ![t] = next]
    /\ UNCHANGED <<applications_db, running, req, call, result, local>>
    /\ UNCHANGED OnlyTask

\* line 397: is there a lock for this id?  (the background task starts here)
process_L397(t) ==
    /\ CanRun(t)
    /\ pc[t] = "L397"
    /\ pc' = [pc EXCEPT ![t] = IF req[t].app \in DOMAIN application_locks
                                 THEN "L403" ELSE "L398"]
    /\ running' = t
    /\ UNCHANGED <<applications_db, req, call, result, local>>
    /\ UNCHANGED OnlyTask

\* lines 399-400: create the lock unless it is there by now, leave db_lock
process_L399(t) ==
    /\ running = t
    /\ pc[t] = "L399"
    /\ db_lock = t
    /\ application_locks' =
          IF req[t].app \in DOMAIN application_locks THEN application_locks
          ELSE With(application_locks, req[t].app, FreshLock)
    /\ db_lock' = NoTask
    /\ pc' = [pc EXCEPT ![t] = "L403"]
    /\ UNCHANGED <<applications_db, lock_owner, lock_waiters, rules, rule_ops,
                   running, req, call, result, local>>

\* line 403: "async with application_locks[application_id]:" takes the lock
\* object out of the dict and acquires it, or waits for it
process_L403(t) ==
    LET l == application_locks[req[t].app] IN
    /\ running = t
    /\ pc[t] = "L403"
    /\ local' = [local EXCEPT ![t].lock = l]
    /\ IF lock_owner[l] = NoTask /\ lock_waiters[l] = <<>>
       THEN /\ lock_owner' = [lock_owner EXCEPT ![l] = t]
            /\ pc' = [pc EXCEPT ![t] = "L405"]
            /\ UNCHANGED <<lock_waiters, running>>
       ELSE /\ lock_waiters' = [lock_waiters EXCEPT ![l] = Append(@, t)]
            /\ pc' = [pc EXCEPT ![t] = "W403"]
            /\ running' = NoTask
            /\ UNCHANGED lock_owner
    /\ UNCHANGED <<applications_db, application_locks, db_lock, rules, rule_ops, req, call, result>>

\* lines 405-408: load the application; return when there is none
process_L405(t) ==
    /\ CanRun(t)
    /\ pc[t] = "L405"
    /\ pc' = [pc EXCEPT ![t] = IF req[t].app \in DOMAIN applications_db
                                 THEN "L411" ELSE "L497"]
    /\ running' = t
    /\ UNCHANGED <<applications_db, req, call, result, local>>
    /\ UNCHANGED OnlyTask

\* line 412 without the assignment of the status
process_L412_skip(t) == DbBody(t, "L412", "L426", App(t))

\* line 412
process_L412(t) ==
    DbBody(t, "L412", "L426", [App(t) EXCEPT !.status = "IDENTITY_VERIFICATION"])

\* lines 415-426: build app_data, call run_standard_checks and wait in its
\* first wait_for (integrations.py line 310)
process_L426(t) ==
    /\ running = t
    /\ pc[t] = "L426"
    /\ pc' = [pc EXCEPT ![t] = "W310"]
    /\ running' = NoTask
    /\ UNCHANGED <<applications_db, req, call, result, local>>
    /\ UNCHANGED OnlyTask

\* ------------------------------------------------------------------------
\* integrations.py: run_standard_checks; the task waits at line 310
\* (verify_identity), 329 (check_fraud_database) or 348 (kyc_aml_check)
\* ------------------------------------------------------------------------
CheckName(line) ==
    CASE line = "W310" -> "identity_verification"
      [] line = "W329" -> "fraud_database"
      [] line = "W348" -> "kyc_aml_screening"

\* what follows a check: the next check, or the return to app.py line 429
AfterCheck(line) ==
    CASE line = "W310" -> "W329" [] line = "W329" -> "W348" [] line = "W348" -> "L429"

\* the Integration.status a service of MockIntegrationService may answer
ReturnStatuses(line) ==
    IF line = "W310" THEN {"success", "failed"} ELSE {"success"}

CheckDone(t, integration) ==
    /\ running = NoTask
    /\ pc[t] \in {"W310", "W329", "W348"}
    /\ local' = [local EXCEPT ![t].integration_results = Append(@, integration)]
    /\ pc' = [pc EXCEPT ![t] = AfterCheck(pc[t])]
    /\ running' = IF pc[t] = "W348" THEN t ELSE NoTask
    /\ UNCHANGED <<applications_db, req, call, result>>
    /\ UNCHANGED OnlyTask

\* the service answers within the timeout
check_returns(t, status) ==
    /\ pc[t] \in {"W310", "W329", "W348"}
    /\ status \in ReturnStatuses(pc[t])
    /\ CheckDone(t, Integration(CheckName(pc[t]), status, "None", NoScore))

\* except asyncio.TimeoutError
check_timeout(t) ==
    /\ pc[t] \in {"W310", "W329", "W348"}
    /\ CheckDone(t, _create_error_integration(CheckName(pc[t]), "Timeout"))

\* except Exception
check_raises(t) ==
    /\ pc[t] \in {"W310", "W329", "W348"}
    /\ CheckDone(t, _create_error_integration(CheckName(pc[t]), "Integration error"))

\* ------------------------------------------------------------------------
\* app.py: process_application, after the standard checks
\* ------------------------------------------------------------------------
\* lines 430-431: append the results in the order of the dict
process_L430(t) ==
    DbBody(t, "L430", "L434",
           [App(t) EXCEPT !.integrations = @ \o local[t].integration_results])

\* line 435
process_L435(t) ==
    DbBody(t, "L435", "L437", [App(t) EXCEPT !.status = "COMPLIANCE_REVIEW"])

\* line 437: rules_engine.evaluate_application(application)
process_L437(t) ==
    /\ running = t
    /\ pc[t] = "L437"
    /\ local' = [local EXCEPT ![t].rules_result = evaluate_application(App(t), rules)]
    /\ pc' = [pc EXCEPT ![t] = "L440"]
    /\ UNCHANGED <<applications_db, running, req, call, result>>
    /\ UNCHANGED OnlyTask

\* lines 441-442
process_L441(t) ==
    DbBody(t, "L441", "L445",
           [App(t) EXCEPT !.risk_level = local[t].rules_result.risk_level,
                          !.rules_applied = local[t].rules_result.triggered_rules])

\* next_action == "fraud" in place of "fraud" in next_action
IsFraud(next_action) == next_action = "fraud"

\* "manual_review" in next_action, "fraud_review" in next_action and
\* "fraud" in next_action, over the strings _determine_next_action returns
HasManualReview(next_action) == next_action = "manual_review"
HasFraudReview(next_action) == next_action = "manual_fraud_review"
HasFraud(next_action) == next_action = "manual_fraud_review"

\* lines 445-458: which branch of the outcome is taken
OutcomeBranch(rules_result, risk_level) ==
    IF rules_result.can_auto_approve THEN "L446"
    ELSE IF HasManualReview(rules_result.next_action)
            \/ HasFraudReview(rules_result.next_action) THEN "L451"
    ELSE IF risk_level = "HIGH" \/ risk_level = "CRITICAL" THEN "L455"
    ELSE "L460"

process_L445(t) ==
    Goto(t, "L445", OutcomeBranch(local[t].rules_result, App(t).risk_level))

\* lines 447-449
process_L447(t) ==
    DbBody(t, "L447", "L474",
           [App(t) EXCEPT !.status = "APPROVED",
                          !.approval_decision = "approved",
                          !.decision_reason = "Auto-approved - low risk, all verifications passed"])

\* lines 452-453
process_L452(t) ==
    DbBody(t, "L452", "L474",
           [App(t) EXCEPT !.status = "MANUAL_REVIEW",
                          !.assigned_to = IF HasFraud(local[t].rules_result.next_action)
                                          THEN "fraud_team" ELSE "review_team"])

\* lines 456-457
process_L456(t) ==
    DbBody(t, "L456", "L474",
           [App(t) EXCEPT !.status = "MANUAL_REVIEW", !.assigned_to = "senior_reviewer"])

\* line 460: await check_credit(...), with no wait_for around it
process_L460(t) ==
    /\ running = t
    /\ pc[t] = "L460"
    /\ pc' = [pc EXCEPT ![t] = "W460"]
    /\ running' = NoTask
    /\ UNCHANGED <<applications_db, req, call, result, local>>
    /\ UNCHANGED OnlyTask

\* the credit service answers; credit_score is NoScore when the answer has none
credit_returns(t, credit_score) ==
    /\ running = NoTask
    /\ pc[t] = "W460"
    /\ local' = [local EXCEPT ![t].credit_result =
                    Integration("credit_check", "success", "None", credit_score)]
    /\ pc' = [pc EXCEPT ![t] = "L461"]
    /\ running' = t
    /\ UNCHANGED <<applications_db, req, call, result>>
    /\ UNCHANGED OnlyTask

\* lines 480-492: the except clause that catches an exception of the kind
Handler(kind) ==
    CASE kind = "ValueError" -> "L482"
      [] kind = "KeyError" -> "L487"
      [] OTHER -> "L492"

ExceptionKinds == {"ValueError", "KeyError", "RuntimeError"}

\* the credit service raises: the exception leaves the await at line 460
credit_raises(t, kind) ==
    /\ running = NoTask
    /\ pc[t] = "W460"
    /\ pc' = [pc EXCEPT ![t] = Handler(kind)]
    /\ local' = [local EXCEPT ![t].fault = kind]
    /\ running' = t
    /\ UNCHANGED <<applications_db, req, call, result>>
    /\ UNCHANGED OnlyTask

\* line 462
process_L462(t) ==
    DbBody(t, "L462", "L464",
           [App(t) EXCEPT !.integrations = Append(@, local[t].credit_result)])

\* the threshold taken as exclusive
CreditAboveThreshold(credit_result) ==
    (IF credit_result.credit_score = NoScore THEN 0 ELSE credit_result.credit_score) > 650

\* line 464: credit_result.response_data.get("credit_score", 0) >= 650
CreditPasses(credit_result) ==
    (IF credit_result.credit_score = NoScore THEN 0 ELSE credit_result.credit_score) >= 650

process_L464(t) ==
    Goto(t, "L464", IF CreditPasses(local[t].credit_result) THEN "L465" ELSE "L470")

\* lines 466-468
process_L466(t) ==
    DbBody(t, "L466", "L474",
           [App(t) EXCEPT !.status = "APPROVED",
                          !.approval_decision = "approved",
                          !.decision_reason = "Approved after credit check"])

\* a run that rejects the application whose credit score is below the
\* threshold
process_L471_reject(t) ==
    DbBody(t, "L471", "L474",
           [App(t) EXCEPT !.status = "REJECTED",
                          !.decision_reason = "Credit score below threshold"])

\* lines 471-472
process_L471(t) ==
    DbBody(t, "L471", "L474",
           [App(t) EXCEPT !.status = "MANUAL_REVIEW",
                          !.decision_reason = "Credit score below threshold"])

\* lines 475-478
process_L475(t) ==
    DbBody(t, "L475", "L497",
           [App(t) EXCEPT !.completed_at = "set", !.updated_at = "completed"])

\* the note each except clause appends
HandlerNote(line) ==
    CASE line = "L483" -> "Processing error - requires manual review"
      [] line = "L488" -> "Data error - requires manual review"
      [] line = "L493" -> "System error - requires manual review"

\* an except clause that appends its note and leaves the status alone
process_except_note_only(t) ==
    /\ pc[t] \in {"L483", "L488", "L493"}
    /\ DbBody(t, pc[t], "L497", [App(t) EXCEPT !.ai_notes = Append(@, HandlerNote(pc[t]))])

\* lines 483-484, 488-489, 493-494
process_except(t) ==
    /\ pc[t] \in {"L483", "L488", "L493"}
    /\ DbBody(t, pc[t], "L497",
              [App(t) EXCEPT !.status = "MANUAL_REVIEW",
                             !.ai_notes = Append(@, HandlerNote(pc[t]))])

\* a finally clause that leaves the registry alone
process_L497_skip(t) == Goto(t, "L497", "L500")

\* line 497 (finally)
process_L497(t) ==
    Goto(t, "L497", IF req[t].app \in DOMAIN application_locks THEN "L498" ELSE "L500")

\* lines 499-500: delete the entry of this id, leave db_lock
process_L499(t) ==
    /\ running = t
    /\ pc[t] = "L499"
    /\ db_lock = t
    /\ application_locks' = Without(application_locks, req[t].app)
    /\ db_lock' = NoTask
    /\ pc' = [pc EXCEPT ![t] = "L500"]
    /\ UNCHANGED <<applications_db, lock_owner, lock_waiters, rules, rule_ops,
                   running, req, call, result, local>>

\* the end of "async with application_locks[...]": release the lock object
\* the task took at line 403; the first task waiting for it gets it
process_release(t) ==
    LET l == local[t].lock IN
    /\ running = t
    /\ pc[t] = "L500"
    /\ IF lock_waiters[l] = <<>>
       THEN /\ lock_owner' = [lock_owner EXCEPT ![l] = NoTask]
            /\ pc' = [pc EXCEPT ![t] = "done"]
            /\ UNCHANGED lock_waiters
       ELSE /\ lock_owner' = [lock_owner EXCEPT ![l] = Head(lock_waiters[l])]
            /\ lock_waiters' = [lock_waiters EXCEPT ![l] = Tail(@)]
            /\ pc' = [pc EXCEPT ![t] = "done", ![Head(lock_waiters[l])] = "L405"]
    /\ local' = [local EXCEPT ![t].lock = NoLock]
    /\ running' = NoTask
    /\ UNCHANGED <<applications_db, application_locks, db_lock, rules, rule_ops, req, call, result>>

\* process_application(application_id), called by any caller
invoke_process(t, a) ==
    /\ CanStart(t)
    /\ req' = [req EXCEPT ![t] = [op |-> "process", app |-> a]]
    /\ UNCHANGED call
    /\ pc' = [pc EXCEPT ![t] = "L397"]
    /\ UNCHANGED <<applications_db, running, result, local>>
    /\ UNCHANGED OnlyTask

\* ------------------------------------------------------------------------
\* Specifications
\* ------------------------------------------------------------------------
CreditScores == {649, 650, NoScore}
AddableRules == ExtraKeys
RemovableRuleIds == {"FOREIGN_ADDRESS"}
InvokeApplicants == {1, 3, 4}
InvokeScores == {649, 650}
InvokeRules == {k \in ExtraKeys : RuleBook[k].rule_id = "AUTO_VERIFIED"}

\* the steps of validate_application and submit_application
ValidateStep(t) == validate_L336(t) \/ validate_L340(t)

SubmitStep(t) == submit_L364(t) \/ submit_L368(t) \/ submit_L379(t) \/ submit_L385(t)

RequestStep(t) == ValidateStep(t) \/ SubmitStep(t)

\* the steps of process_application
ProcessStep(t) ==
    \/ db_lock_acquire(t)
    \/ process_L397(t) \/ process_L399(t) \/ process_L403(t) \/ process_L405(t)
    \/ process_L412(t) \/ process_L426(t)
    \/ process_L430(t) \/ process_L435(t) \/ process_L437(t) \/ process_L441(t)
    \/ process_L445(t) \/ process_L447(t) \/ process_L452(t) \/ process_L456(t)
    \/ process_L460(t) \/ process_L462(t) \/ process_L464(t) \/ process_L466(t)
    \/ process_L471(t) \/ process_L475(t) \/ process_except(t)
    \/ process_L497(t) \/ process_L499(t) \/ process_release(t)

\* what the services behind the integrations do
ServiceStep(t) ==
    \/ \E status \in {"success", "failed"} : check_returns(t, status)
    \/ check_timeout(t)
    \/ check_raises(t)
    \/ \E score \in CreditScores : credit_returns(t, score)
    \/ \E kind \in ExceptionKinds : credit_raises(t, kind)

\* The program behind its HTTP interface
Next ==
    \/ \E a \in AppIds, k \in ApplicantKeys : create_application(a, k)
    \/ \E k \in AddableRules : add_rule(k)
    \/ \E id \in RemovableRuleIds : remove_rule(id)
    \/ \E t \in Tasks, a \in AppIds : validate_L330(t, a)
    \/ \E t \in Tasks, a \in AppIds : submit_L359(t, a)
    \/ \E t \in Tasks : RequestStep(t)
    \/ \E t \in Tasks : ProcessStep(t)
    \/ \E t \in Tasks : ServiceStep(t)

Spec == Init /\ [][Next]_vars

\* the services while process_application is called directly: every standard
\* check answers, the credit service answers or raises
InvokeServiceStep(t) ==
    \/ check_returns(t, "success")
    \/ \E score \in InvokeScores : credit_returns(t, score)
    \/ credit_raises(t, "ValueError")

\* process_application called directly, any number of times for one id
NextInvoke ==
    \/ \E a \in AppIds, k \in InvokeApplicants : create_application(a, k)
    \/ \E k \in InvokeRules : add_rule(k)
    \/ \E t \in Tasks, a \in AppIds : invoke_process(t, a)
    \/ \E t \in Tasks : ProcessStep(t)
    \/ \E t \in Tasks : InvokeServiceStep(t)

SpecInvoke == Init /\ [][NextInvoke]_vars

\* a task inside "async with application_locks[application_id]:"
GuardedLines ==
    {"L405", "L411", "L412", "L426", "W310", "W329", "W348", "L429", "L430", "L434",
     "L435", "L437", "L440", "L441", "L445", "L446", "L447", "L451", "L452", "L455",
     "L456", "L460", "W460", "L461", "L462", "L464", "L465", "L466", "L470", "L471",
     "L474", "L475", "L482", "L483", "L487", "L488", "L492", "L493", "L497", "L498",
     "L499", "L500"}

InGuarded(t) == pc[t] \in GuardedLines

\* C1: of the invocations of process_application on one application id, at
\* most one is inside the section guarded by the per-application lock
C1_OneRunPerApplication ==
    \A t \in Tasks, u \in Tasks :
        (t # u /\ InGuarded(t) /\ InGuarded(u)) => req[t].app # req[u].app

\* ------------------------------------------------------------------------
\* Submission
\* ------------------------------------------------------------------------
\* the answered submit requests for application a, the 404s aside
Submits(a) ==
    {t \in Tasks : req[t].op = "submit" /\ req[t].app = a
                   /\ result[t] \notin {"none", "404"}}

\* the runs of process_application that submit requests for a have scheduled
ScheduledRuns(a) ==
    {t \in Tasks : req[t].op = "submit" /\ req[t].app = a
                   /\ (pc[t] = "L385" \/ result[t] = "submitted")}

PassesValidation(a) == generate_validation_report(Applicants[applications_db[a].applicant]).overall_valid

\* C2: of the submit requests for one application that passes validation,
\* however they interleave, exactly one is answered "submitted" and schedules
\* the one run of process_application; every other one is answered with the
\* error of an application that is not DRAFT
C2_ExactlyOneSubmit ==
    \A a \in DOMAIN applications_db :
        PassesValidation(a) =>
            /\ Cardinality(ScheduledRuns(a)) <= 1
            /\ Submits(a) # {} =>
                  /\ Cardinality({t \in Submits(a) : result[t] = "submitted"}) = 1
                  /\ \A t \in Submits(a) :
                        result[t] \in {"submitted", "400 already submitted"}

\* two submit requests for one application, one accepted and one rejected
C2_Witness ==
    \E t \in Tasks, u \in Tasks :
        /\ req[t].op = "submit" /\ req[u].op = "submit" /\ req[t].app = req[u].app
        /\ result[t] = "submitted"
        /\ result[u] = "400 already submitted"

\* the place of a status on the path DRAFT -> SUBMITTED ->
\* IDENTITY_VERIFICATION -> COMPLIANCE_REVIEW -> {APPROVED, MANUAL_REVIEW, REJECTED}
Rank(status) ==
    CASE status = "DRAFT" -> 0
      [] status = "SUBMITTED" -> 1
      [] status = "IDENTITY_VERIFICATION" -> 2
      [] status = "COMPLIANCE_REVIEW" -> 3
      [] OTHER -> 4

\* C3: no step of any execution moves the status of an application to a
\* value that lies earlier on the path than the value it has
C3_StatusMovesForward ==
    [][\A a \in DOMAIN applications_db :
          Rank(applications_db'[a].status) >= Rank(applications_db[a].status)]_vars

\* a run that a fault ended has taken its application along the whole path
C3_Witness ==
    \E t \in Tasks :
        /\ pc[t] = "done" /\ result[t] = "submitted"
        /\ local[t].fault # "None"
        /\ App(t).status = "MANUAL_REVIEW"

\* C4: submit_application on an application that is not DRAFT answers with
\* the error, changes no field of any application and schedules no run
C4_RejectsNonDraft ==
    [][\A t \in Tasks :
          (running = t /\ pc[t] = "L364" /\ App(t).status # "DRAFT") =>
              /\ result'[t] = "400 already submitted"
              /\ pc'[t] = "done"
              /\ applications_db' = applications_db]_vars

\* a submit was rejected because its application had left DRAFT
C4_Witness ==
    \E t \in Tasks :
        /\ req[t].op = "submit" /\ pc[t] = "done"
        /\ result[t] = "400 already submitted"
        /\ App(t).status # "DRAFT"

\* C5: a submit that the validation report rejects leaves the record of the
\* application as it was
C5_RejectedSubmitChangesNothing ==
    [][\A t \in Tasks :
          (running = t /\ pc[t] = "L368" /\ ~Report(t).overall_valid) =>
              /\ result'[t] = "400 validation failed"
              /\ pc'[t] = "done"
              /\ applications_db' = applications_db]_vars

\* ------------------------------------------------------------------------
\* The end of a run
\* ------------------------------------------------------------------------
\* the run of process_application that the submit request of t scheduled is over
RunEnded(t) == req[t].op = "submit" /\ result[t] = "submitted" /\ pc[t] = "done"

\* the run of t got as far as the evaluation of the rules
Evaluated(t) == local[t].rules_result # NoRulesResult

HandlerNotes ==
    {"Processing error - requires manual review", "Data error - requires manual review",
     "System error - requires manual review"}

\* task t holds no per-application lock and waits for none
HoldsNoLock(t) ==
    \A l \in LockIds : lock_owner[l] # t /\ ~InSeq(t, lock_waiters[l])

\* C6: a run in which an exception left the try block ends, with the
\* application in MANUAL_REVIEW, one note of an except clause in ai_notes and
\* the per-application lock released
C6_FaultEndsInManualReview ==
    \A t \in Tasks :
        (RunEnded(t) /\ local[t].fault # "None") =>
            /\ App(t).status = "MANUAL_REVIEW"
            /\ Len(SelectSeq(App(t).ai_notes, LAMBDA n : n \in HandlerNotes)) = 1
            /\ HoldsNoLock(t)
            /\ local[t].lock = NoLock

\* a run that a KeyError of the credit check ended
C6_Witness ==
    \E t \in Tasks :
        /\ RunEnded(t) /\ local[t].fault = "KeyError"
        /\ InSeq("Data error - requires manual review", App(t).ai_notes)

\* C7: when a run on an existing application is over, completed_at is set
C7_CompletedAtSet ==
    \A t \in Tasks : RunEnded(t) => App(t).completed_at = "set"

\* applications are created and submitted; every service may answer, time
\* out, raise or stay silent
NextSubmit ==
    \/ \E a \in AppIds, k \in InvokeApplicants : create_application(a, k)
    \/ \E k \in InvokeRules : add_rule(k)
    \/ \E t \in Tasks, a \in AppIds : submit_L359(t, a)
    \/ \E t \in Tasks : SubmitStep(t)
    \/ \E t \in Tasks : ProcessStep(t)
    \/ \E t \in Tasks : InvokeServiceStep(t)
    \/ \E t \in Tasks : check_timeout(t)

\* the event loop runs every task that can run, and each asyncio.wait_for of
\* run_standard_checks ends its wait after timeout_seconds; nothing bounds
\* the await of check_credit at app.py line 460
Scheduled == \E t \in Tasks : SubmitStep(t) \/ ProcessStep(t) \/ check_timeout(t)

Fairness == WF_vars(Scheduled)

SpecFair == Init /\ [][NextSubmit]_vars /\ Fairness

\* C8: under fair scheduling a submitted application reaches APPROVED or
\* MANUAL_REVIEW with its per-application lock released, whatever the
\* external checks do
C8_SubmittedReachesDecision ==
    \A t \in Tasks :
        (result[t] = "submitted") ~>
            (/\ RunEnded(t)
             /\ App(t).status \in {"APPROVED", "MANUAL_REVIEW"}
             /\ HoldsNoLock(t))

AutoReason == "Auto-approved - low risk, all verifications passed"

\* the run took the branch of lines 446-449
AutoApproved(app) ==
    /\ app.status = "APPROVED"
    /\ app.approval_decision = "approved"
    /\ app.decision_reason = AutoReason

\* C9: a run takes the auto-approval branch exactly when the triggered
\* actions are the single action auto_approve; a second triggered rule
\* keeps it from that branch
C9_AutoApproveIffSingleAction ==
    \A t \in Tasks :
        (RunEnded(t) /\ Evaluated(t)) =>
            /\ AutoApproved(App(t)) <=>
                  local[t].rules_result.actions_required = <<"auto_approve">>
            /\ Len(local[t].rules_result.triggered_rules) >= 2 => ~AutoApproved(App(t))

\* a run that was auto-approved
C9_Witness ==
    \E t \in Tasks :
        /\ RunEnded(t) /\ AutoApproved(App(t))
        /\ local[t].rules_result.triggered_rules = <<"AUTO_VERIFIED">>

\* C10: off the auto-approval branch, a triggered flag_fraud_review sends the
\* application to the fraud team, else a triggered flag_manual_review to the
\* review team, else a HIGH or CRITICAL risk level to the senior reviewer
C10_ReviewRouting ==
    \A t \in Tasks :
        LET acts == local[t].rules_result.actions_required
            app == App(t)
        IN  (RunEnded(t) /\ Evaluated(t) /\ acts # <<"auto_approve">>) =>
                IF InSeq("flag_fraud_review", acts)
                THEN app.status = "MANUAL_REVIEW" /\ app.assigned_to = "fraud_team"
                ELSE IF InSeq("flag_manual_review", acts)
                THEN app.status = "MANUAL_REVIEW" /\ app.assigned_to = "review_team"
                ELSE (app.risk_level \in {"HIGH", "CRITICAL"}) =>
                        app.status = "MANUAL_REVIEW" /\ app.assigned_to = "senior_reviewer"

\* a run that ended with the fraud team
C10_Witness ==
    \E t \in Tasks :
        /\ RunEnded(t)
        /\ InSeq("flag_fraud_review", local[t].rules_result.actions_required)
        /\ App(t).assigned_to = "fraud_team"

\* ------------------------------------------------------------------------
\* The residual branch
\* ------------------------------------------------------------------------
\* the rules of the run of t asked for no auto-approval and no review, and
\* the risk level is LOW or MEDIUM
Residual(t) ==
    LET r == local[t].rules_result
    IN  /\ Evaluated(t)
        /\ r.actions_required # <<"auto_approve">>
        /\ ~InSeq("flag_fraud_review", r.actions_required)
        /\ ~InSeq("flag_manual_review", r.actions_required)
        /\ r.risk_level \in {"LOW", "MEDIUM"}

CreditChecks(app) ==
    SelectSeq(app.integrations, LAMBDA i : i.integration_name = "credit_check")

\* C11: a run on the residual branch whose credit check answered has
\* appended that one answer to the integrations; a credit_score of 650 or
\* more ended it APPROVED "Approved after credit check", anything else,
\* a missing credit_score included, MANUAL_REVIEW "Credit score below threshold"
C11_CreditBranch ==
    \A t \in Tasks :
        (RunEnded(t) /\ Residual(t) /\ local[t].fault = "None") =>
            LET app == App(t)
                score == local[t].credit_result.credit_score
            IN  /\ CreditChecks(app) = <<local[t].credit_result>>
                /\ app.integrations[Len(app.integrations)] = local[t].credit_result
                /\ IF score # NoScore /\ score >= 650
                   THEN /\ app.status = "APPROVED"
                        /\ app.approval_decision = "approved"
                        /\ app.decision_reason = "Approved after credit check"
                   ELSE /\ app.status = "MANUAL_REVIEW"
                        /\ app.decision_reason = "Credit score below threshold"

\* a run approved after a credit check that answered exactly 650
C11_Witness ==
    \E t \in Tasks :
        /\ RunEnded(t) /\ Residual(t)
        /\ local[t].credit_result.credit_score = 650
        /\ App(t).decision_reason = "Approved after credit check"

\* ------------------------------------------------------------------------
\* The default rules end to end
\* ------------------------------------------------------------------------
\* C12: when a run evaluates the default rules on an application whose
\* ai_fraud_score is above 0.7, SUSPICIOUS_PATTERN triggers and the risk
\* level is CRITICAL; the run that evaluated so ends in MANUAL_REVIEW with
\* the fraud team
C12_FraudScoreToFraudTeam ==
    [][\A t \in Tasks :
          /\ (running = t /\ pc[t] = "L437" /\ rules = DefaultKeys
              /\ App(t).ai_fraud_score > 70) =>
                 /\ InSeq("SUSPICIOUS_PATTERN", local'[t].rules_result.triggered_rules)
                 /\ local'[t].rules_result.risk_level = "CRITICAL"
          /\ (pc[t] = "L500" /\ pc'[t] = "done" /\ rule_ops = 0
              /\ InSeq("SUSPICIOUS_PATTERN", local[t].rules_result.triggered_rules)) =>
                 /\ applications_db'[req[t].app].status = "MANUAL_REVIEW"
                 /\ applications_db'[req[t].app].assigned_to = "fraud_team"
                 /\ applications_db'[req[t].app].risk_level = "CRITICAL"]_vars

\* a run under the default rules on a fraud score of 0.75 that ended with
\* the fraud team
C12_Witness ==
    \E t \in Tasks :
        /\ RunEnded(t) /\ rule_ops = 0
        /\ App(t).ai_fraud_score = 75
        /\ InSeq("SUSPICIOUS_PATTERN", local[t].rules_result.triggered_rules)
        /\ App(t).risk_level = "CRITICAL"
        /\ App(t).assigned_to = "fraud_team"

\* C13: when a run evaluates the default rules on an applicant younger than
\* 18 whose account_type is not minor_account, AGE_VERIFICATION is among the
\* triggered rules, require_cosigner among the actions and next_action is
\* not auto_approve
C13_MinorNeedsCosigner ==
    [][\A t \in Tasks :
          (running = t /\ pc[t] = "L437" /\ rules = DefaultKeys
           /\ calculate_age(Applicants[App(t).applicant]) < 18
           /\ Applicants[App(t).applicant].account_type # "minor_account") =>
              /\ InSeq("AGE_VERIFICATION", local'[t].rules_result.triggered_rules)
              /\ InSeq("require_cosigner", local'[t].rules_result.actions_required)
              /\ local'[t].rules_result.next_action # "auto_approve"]_vars

\* ------------------------------------------------------------------------
\* rules_engine.py called directly: the engine's own add_rule and
\* remove_rule, and calls of its functions on arguments drawn from small
\* sets.  A call leaves the state of the service alone and records its name,
\* its argument and what it returned.  A behaviour is a sequence of add_rule
\* and remove_rule followed by one call.
\* ------------------------------------------------------------------------
MaxEngineOps == 3

\* RulesEngine.add_rule
engine_add_rule(k) ==
    /\ call = NoCall
    /\ rule_ops < MaxEngineOps
    /\ rules' = Append(rules, k)
    /\ rule_ops' = rule_ops + 1
    /\ UNCHANGED <<applications_db, application_locks, lock_owner, lock_waiters, db_lock,
                   running, pc, req, call, result, local>>

\* RulesEngine.remove_rule
engine_remove_rule(rule_id) ==
    /\ call = NoCall
    /\ rule_ops < MaxEngineOps
    /\ rules' = SelectSeq(rules, LAMBDA k : RuleBook[k].rule_id # rule_id)
    /\ rule_ops' = rule_ops + 1
    /\ UNCHANGED <<applications_db, application_locks, lock_owner, lock_waiters, db_lock,
                   running, pc, req, call, result, local>>

Called(fn, arg, ret) ==
    /\ call = NoCall
    /\ call' = [fn |-> fn, arg |-> arg, ret |-> ret]
    /\ UNCHANGED <<applications_db, application_locks, lock_owner, lock_waiters, db_lock,
                   rules, rule_ops, running, pc, req, result, local>>

\* a call of a function that does not read self.rules, made on the engine
\* as it is constructed
CalledFresh(fn, arg, ret) == rule_ops = 0 /\ Called(fn, arg, ret)

\* an application as the engine may be handed it: who applies, the fraud
\* score the validator stored, and whether integrations are recorded
EngineApplication(k, fraud, checked) ==
    [NewApplication(k) EXCEPT
        !.ai_fraud_score = fraud,
        !.integrations = IF checked
                         THEN <<Integration("identity_verification", "success", "None", NoScore)>>
                         ELSE <<>>]

FraudScores == {0, 50, 75, 100}

\* RulesEngine.evaluate_application on the engine's current rules
call_evaluate_application(k, fraud, checked) ==
    LET app == EngineApplication(k, fraud, checked)
    IN Called("evaluate_application", [rules |-> rules, app |-> app],
              evaluate_application(app, rules))

\* Clauses of the supported forms: fact < number, fact > number,
\* fact != literal, and a bare boolean fact
Clauses == <<
    Cond(8, <<W("age"), W("<"), N("18", 1800)>>),
    Cond(8, <<W("age"), W(">"), N("20", 2000)>>),
    Cond(31, <<W("account_type"), W("!="), Q("minor_account")>>),
    Cond(14, <<W("ssn_repetitive")>>)
>>

\* the text a + " and " + b, or a + " or " + b
Joined(a, word, b) ==
    Cond(a.length + 1 + Len(word) + 1 + b.length, a.toks \o <<W(word)>> \o b.toks)

\* a fact context with the facts the clauses name
ClauseContext(age, account_type, ssn_repetitive) ==
    [age |-> NumV(age * 100, ToString(age)),
     account_type |-> StrV(account_type),
     ssn_repetitive |-> BoolV(ssn_repetitive)]

ClauseAges == {16, 30}
ClauseAccountTypes == {"minor_account", "personal_checking"}

\* RulesEngine._evaluate_condition on two clauses joined by "and" or "or"
call_evaluate_condition(a, word, b, age, account_type, ssn_repetitive) ==
    CalledFresh("_evaluate_condition",
           [shape |-> "joined", a |-> a, word |-> word, b |-> b, age |-> age,
            account_type |-> account_type, ssn_repetitive |-> ssn_repetitive],
           _evaluate_condition(Joined(Clauses[a], word, Clauses[b]),
                               ClauseContext(age, account_type, ssn_repetitive)))

\* a clause with one more character in front of it or behind it ("none": no
\* character added), the text padded with blanks to the length pad (0: not
\* padded)
Guarded(a, ch, place, pad) ==
    Cond(IF pad = 0 THEN Clauses[a].length + (IF ch = "none" THEN 0 ELSE 1) ELSE pad,
         IF ch = "none" THEN Clauses[a].toks
         ELSE IF place = "front" THEN <<W(ch)>> \o Clauses[a].toks
         ELSE Clauses[a].toks \o <<W(ch)>>)

AddedChars == DangerousChars \cup {"none"}
PaddedLengths == {0, MaxConditionLength, MaxConditionLength + 1}

\* RulesEngine._evaluate_condition on a clause with a character added and
\* the text padded
call_evaluate_guarded(a, ch, place, pad, age, account_type, ssn_repetitive) ==
    CalledFresh("_evaluate_condition",
           [shape |-> "guarded", a |-> a, ch |-> ch, place |-> place, pad |-> pad,
            age |-> age, account_type |-> account_type, ssn_repetitive |-> ssn_repetitive],
           _evaluate_condition(Guarded(a, ch, place, pad),
                               ClauseContext(age, account_type, ssn_repetitive)))

\* risk scores in hundredths, on both sides of each threshold
RiskScores == {0, 2999, 3000, 4000, 4999, 5000, 6999, 7000, 7500, 10000}

\* rule ids other than the two that _determine_risk_level looks for
OtherRuleIds == <<"AGE_VERIFICATION", "FOREIGN_ADDRESS", "CREDIT_CHECK_THRESHOLD">>

\* a list of triggered rule ids: with or without SUSPICIOUS_PATTERN, with
\* or without HIGH_RISK_SSN, and the first n of the other ids
TriggeredList(suspicious, high_risk_ssn, n) ==
    (IF suspicious THEN <<"SUSPICIOUS_PATTERN">> ELSE <<>>)
    \o (IF high_risk_ssn THEN <<"HIGH_RISK_SSN">> ELSE <<>>)
    \o SubSeq(OtherRuleIds, 1, n)

\* RulesEngine._determine_risk_level
call_determine_risk_level(risk_score, suspicious, high_risk_ssn, n) ==
    CalledFresh("_determine_risk_level",
           [risk_score |-> risk_score,
            triggered_rules |-> TriggeredList(suspicious, high_risk_ssn, n)],
           _determine_risk_level(risk_score, TriggeredList(suspicious, high_risk_ssn, n)))

\* RulesEngine._calculate_risk_score
call_calculate_risk_score(k, fraud) ==
    CalledFresh("_calculate_risk_score",
           [applicant |-> k, ai_fraud_score |-> fraud],
           _calculate_risk_score(EngineApplication(k, fraud, FALSE)))

\* Nine digits in three blocks of three; a block starts at a digit and
\* either repeats it or counts up from it
BlockStarts == {0, 1, 4, 7}
BlockSteps == {0, 1}
SsnBlock(start, step) == <<start, (start + step) % 10, (start + 2 * step) % 10>>
SsnDigits(s1, t1, s2, t2, s3, t3) == SsnBlock(s1, t1) \o SsnBlock(s2, t2) \o SsnBlock(s3, t3)

\* the SSN as it is written: 123456789, 123-45-6789 or 123 45 6789
SsnFormats == {"plain", "dashed", "spaced"}
SsnText(digits, format) ==
    IF format = "plain" THEN digits
    ELSE LET sep == IF format = "dashed" THEN Dash ELSE Blank
         IN SubSeq(digits, 1, 3) \o <<sep>> \o SubSeq(digits, 4, 5) \o <<sep>>
            \o SubSeq(digits, 6, 9)

\* RulesEngine.is_ssn_suspicious
call_is_ssn_suspicious(s1, t1, s2, t2, s3, t3, format) ==
    CalledFresh("is_ssn_suspicious",
           [digits |-> SsnDigits(s1, t1, s2, t2, s3, t3), format |-> format],
           is_ssn_suspicious(ssn_clean(SsnText(SsnDigits(s1, t1, s2, t2, s3, t3), format))))

AddableEngineRules == ExtraKeys \cup EngineKeys
RemovableEngineRuleIds == {"FOREIGN_ADDRESS", "SUSPICIOUS_PATTERN", "TOP_FOREIGN"}

\* The rules engine under its callers
NextCalls ==
    \/ \E k \in AddableEngineRules : engine_add_rule(k)
    \/ \E id \in RemovableEngineRuleIds : engine_remove_rule(id)
    \/ \E k \in ApplicantKeys, fraud \in FraudScores, checked \in BOOLEAN :
          call_evaluate_application(k, fraud, checked)
    \/ \E a, b \in 1..Len(Clauses), word \in {"and", "or"}, age \in ClauseAges,
          account_type \in ClauseAccountTypes, ssn_repetitive \in BOOLEAN :
          call_evaluate_condition(a, word, b, age, account_type, ssn_repetitive)
    \/ \E a \in 1..Len(Clauses), ch \in AddedChars, place \in {"front", "back"},
          pad \in PaddedLengths, age \in ClauseAges,
          account_type \in ClauseAccountTypes, ssn_repetitive \in BOOLEAN :
          call_evaluate_guarded(a, ch, place, pad, age, account_type, ssn_repetitive)
    \/ \E risk_score \in RiskScores, suspicious, high_risk_ssn \in BOOLEAN,
          n \in 0..Len(OtherRuleIds) :
          call_determine_risk_level(risk_score, suspicious, high_risk_ssn, n)
    \/ \E k \in RiskProfileKeys, fraud \in FraudScores : call_calculate_risk_score(k, fraud)
    \/ \E s1, s2, s3 \in BlockStarts, t1, t2, t3 \in BlockSteps, format \in SsnFormats :
          call_is_ssn_suspicious(s1, t1, s2, t2, s3, t3, format)

SpecCalls == Init /\ [][NextCalls]_vars

\* C14: whatever add_rule and remove_rule made of the list of rules, the
\* triggered rules of evaluate_application are exactly the enabled rules of
\* the list whose condition holds, in descending priority, rules of one
\* priority in the order of the list; actions_required holds their actions
\* in the same order
C14_PriorityOrder ==
    call.fn = "evaluate_application" =>
        LET ks == call.arg.rules
            context == FactContext(call.arg.app)
            hit == {i \in 1..Len(ks) :
                        /\ RuleBook[ks[i]].enabled
                        /\ _evaluate_condition(RuleBook[ks[i]].condition, context)}
            ids == call.ret.triggered_rules
            acts == call.ret.actions_required
            Earlier(i, j) ==
                \/ RuleBook[ks[i]].priority > RuleBook[ks[j]].priority
                \/ RuleBook[ks[i]].priority = RuleBook[ks[j]].priority /\ i < j
        IN /\ Len(ids) = Cardinality(hit)
           /\ Len(acts) = Len(ids)
           /\ \E at \in [1..Len(ids) -> hit] :
                /\ \A n, m \in 1..Len(ids) : n < m => Earlier(at[n], at[m])
                /\ \A n \in 1..Len(ids) :
                      /\ ids[n] = RuleBook[ks[at[n]]].rule_id
                      /\ acts[n] = RuleBook[ks[at[n]]].action

\* a rule of priority 120 and a rule of the priority of FOREIGN_ADDRESS were
\* added after the defaults, with a disabled rule between them
C14_Witness ==
    /\ call.fn = "evaluate_application"
    /\ \E i \in 1..Len(call.arg.rules) : RuleBook[call.arg.rules[i]].rule_id = "OFF_FOREIGN"
    /\ \E n \in 1..Len(call.ret.triggered_rules) - 2 :
          /\ call.ret.triggered_rules[n] = "TOP_FOREIGN"
          /\ call.ret.triggered_rules[n + 1] = "FOREIGN_ADDRESS"
          /\ call.ret.triggered_rules[n + 2] = "CITIZENSHIP_NOTE"

\* the outcome of the evaluator on one clause alone
ClauseTrue(i, arg) ==
    _evaluate_condition(Clauses[i], ClauseContext(arg.age, arg.account_type, arg.ssn_repetitive))

\* C15: for two clauses A and B of the supported forms over facts of the
\* context, "A and B" evaluates to true exactly when A and B both do, and
\* "A or B" exactly when at least one of them does
C15_AndOrOfClauses ==
    (call.fn = "_evaluate_condition" /\ call.arg.shape = "joined") =>
        LET arg == call.arg
        IN call.ret = IF arg.word = "and"
                      THEN ClauseTrue(arg.a, arg) /\ ClauseTrue(arg.b, arg)
                      ELSE ClauseTrue(arg.a, arg) \/ ClauseTrue(arg.b, arg)

\* the characters a condition must not contain
Forbidden == {";", "(", ")", "[", "]", "{", "}", "\\", "backtick", "$"}
Unsafe(condition) ==
    \/ condition.length > 500
    \/ \E i \in 1..Len(condition.toks) : condition.toks[i].s \in Forbidden

\* C16: a condition that contains a semicolon, parenthesis, square bracket,
\* brace, backslash, backtick or dollar sign, or that is longer than 500
\* characters, evaluates to false in every fact context, and a rule with
\* such a condition is never among the triggered rules
C16_UnsafeConditionIsFalse ==
    /\ (call.fn = "_evaluate_condition" /\ call.arg.shape = "guarded") =>
          (Unsafe(Guarded(call.arg.a, call.arg.ch, call.arg.place, call.arg.pad))
              => call.ret = FALSE)
    /\ call.fn = "evaluate_application" =>
          \A n \in 1..Len(call.ret.triggered_rules) :
              \A i \in 1..Len(call.arg.rules) :
                  RuleBook[call.arg.rules[i]].rule_id = call.ret.triggered_rules[n]
                      => ~Unsafe(RuleBook[call.arg.rules[i]].condition)

\* a clause that is true on its own, evaluated with a semicolon behind it
C16_Witness ==
    /\ call.fn = "_evaluate_condition"
    /\ call.arg.shape = "guarded"
    /\ call.arg.ch = ";"
    /\ call.arg.pad = 0
    /\ ClauseTrue(call.arg.a, call.arg)
    /\ call.ret = FALSE

\* C17: _determine_risk_level returns CRITICAL if the score is at least 70
\* or SUSPICIOUS_PATTERN is triggered; otherwise HIGH if the score is at
\* least 50 or HIGH_RISK_SSN is triggered; otherwise MEDIUM if the score is
\* at least 30 or at least 3 rules are triggered; otherwise LOW
C17_RiskLevelCascade ==
    call.fn = "_determine_risk_level" =>
        LET score == call.arg.risk_score
            ids == call.arg.triggered_rules
            Triggered(id) == \E i \in 1..Len(ids) : ids[i] = id
            critical == score >= 70 * 100 \/ Triggered("SUSPICIOUS_PATTERN")
            high == score >= 50 * 100 \/ Triggered("HIGH_RISK_SSN")
            medium == score >= 30 * 100 \/ Len(ids) >= 3
        IN /\ critical => call.ret = "CRITICAL"
           /\ (~critical /\ high) => call.ret = "HIGH"
           /\ (~critical /\ ~high /\ medium) => call.ret = "MEDIUM"
           /\ (~critical /\ ~high /\ ~medium) => call.ret = "LOW"

\* a score of 40 with three triggered rules, none of them one of the two
\* the function looks for, gives MEDIUM
C17_Witness ==
    /\ call.fn = "_determine_risk_level"
    /\ call.arg.risk_score = 4000
    /\ call.arg.triggered_rules = OtherRuleIds
    /\ call.ret = "MEDIUM"

\* C18: for an application whose ai_fraud_score lies in [0, 1], whatever its
\* age, citizenship, income and SSN, _calculate_risk_score returns a value
\* between 0 and 100
C18_RiskScoreInRange ==
    (call.fn = "_calculate_risk_score"
        /\ call.arg.ai_fraud_score >= 0 /\ call.arg.ai_fraud_score <= 100) =>
        (call.ret >= 0 /\ call.ret <= 100 * 100)

\* every contribution is added at once: fraud score 1.0, older than 75,
\* foreign, income below 15000 and a repetitive SSN
C18_Witness ==
    /\ call.fn = "_calculate_risk_score"
    /\ call.arg.ai_fraud_score = 100
    /\ LET p == Applicants[call.arg.applicant]
       IN /\ p.age > 75
          /\ p.citizenship # "US"
          /\ p.has_employment /\ p.annual_income = 14999
          /\ p.ssn = <<1,1,1,1,1,1,1,1,1>>
    /\ call.ret = 100 * 100

\* C19: for a 9-digit SSN, with or without dashes or blanks,
\* is_ssn_suspicious answers sequential exactly when at least 5 of the 8
\* adjacent pairs of digits go up by one, and repetitive exactly when the 9
\* digits are one digit or one block of 3 digits three times; 111111111
\* gives (false, true) and 123456789 gives sequential
C19_SsnPatterns ==
    call.fn = "is_ssn_suspicious" =>
        LET d == call.arg.digits
            steps == {i \in 1..8 : d[i + 1] = d[i] + 1}
            one_digit == \A i \in 2..9 : d[i] = d[1]
            one_block == \A i \in 1..3 : d[i + 3] = d[i] /\ d[i + 6] = d[i]
        IN /\ Len(d) = 9
           /\ call.ret.sequential <=> Cardinality(steps) >= 5
           /\ call.ret.repetitive <=> (one_digit \/ one_block)
           /\ d = <<1,1,1,1,1,1,1,1,1>> =>
                 (~call.ret.sequential /\ call.ret.repetitive)
           /\ d = <<1,2,3,4,5,6,7,8,9>> => call.ret.sequential

\* 123-12-3444 has exactly 5 pairs that go up by one
C19_Witness ==
    /\ call.fn = "is_ssn_suspicious"
    /\ call.arg.digits = <<1,2,3,1,2,3,4,4,4>>
    /\ call.arg.format = "dashed"
    /\ call.ret.sequential
    /\ ~call.ret.repetitive

\* the records run_standard_checks returns, in order
StandardChecks == <<"identity_verification", "fraud_database", "kyc_aml_screening">>

\* the place of a wait of run_standard_checks among its three checks
CheckPlace(line) == CASE line = "W310" -> 1 [] line = "W329" -> 2 [] line = "W348" -> 3

\* C20: whichever of the three standard checks time out or raise,
\* run_standard_checks goes through all three in order and returns three
\* records, for identity verification, the fraud database and KYC/AML; a
\* check that times out or raises leaves a record with status failed, and
\* the next check is run
C20_ThreeRecords ==
    [][\A t \in Tasks :
          (pc[t] \in {"W310", "W329", "W348"} /\ pc'[t] # pc[t]) =>
              LET before == local[t].integration_results
                  after == local'[t].integration_results
                  n == CheckPlace(pc[t])
              IN /\ Len(before) = n - 1
                 /\ Len(after) = n
                 /\ SubSeq(after, 1, n - 1) = before
                 /\ after[n].integration_name = StandardChecks[n]
                 /\ (check_timeout(t) \/ check_raises(t)) => after[n].status = "failed"
                 /\ pc'[t] = IF n = 1 THEN "W329" ELSE IF n = 2 THEN "W348" ELSE "L429"
                 /\ pc'[t] = "L429" =>
                       /\ [i \in 1..3 |-> after[i].integration_name] = StandardChecks
                       /\ running' = t
    ]_vars

\* run_standard_checks has returned: the identity check timed out, the
\* fraud database raised, and the KYC/AML screening answered
C20_Witness ==
    \E t \in Tasks :
        /\ pc[t] = "L429"
        /\ Len(local[t].integration_results) = 3
        /\ local[t].integration_results[1].status = "failed"
        /\ local[t].integration_results[1].error = "Timeout"
        /\ local[t].integration_results[2].status = "failed"
        /\ local[t].integration_results[2].error = "Integration error"
        /\ local[t].integration_results[3].integration_name = "kyc_aml_screening"
        /\ local[t].integration_results[3].status = "success"

\* the task whose pipeline run for application a is active: it is inside the
\* section guarded by the per-application lock
ActiveRun(t, a) == req[t].app = a /\ InGuarded(t)

\* C21: while a pipeline run for an application is active, every step that
\* changes a field of the application is a step of that run
C21_OnlyTheRunWrites ==
    [][\A a \in DOMAIN applications_db :
          ((\E t \in Tasks : ActiveRun(t, a))
              /\ a \in DOMAIN applications_db'
              /\ applications_db'[a] # applications_db[a]) =>
              \E t \in Tasks : ActiveRun(t, a) /\ pc'[t] # pc[t]
    ]_vars

\* C22: whatever add_rule and remove_rule did to the default rules, no two
\* rules of the engine have the same rule_id
C22_RuleIdsUnique ==
    \A i, j \in 1..Len(rules) :
        i # j => RuleBook[rules[i]].rule_id # RuleBook[rules[j]].rule_id

\* C23: in every state the stored risk_level of an application is the level
\* that _determine_risk_level gives for its current risk score and its
\* stored rules_applied
C23_RiskLevelDerivable ==
    \A a \in DOMAIN applications_db :
        applications_db[a].risk_level =
            _determine_risk_level(_calculate_risk_score(applications_db[a]),
                                  applications_db[a].rules_applied)

FinalStatuses == {"APPROVED", "MANUAL_REVIEW"}

\* the names of the last three integration results of an application
LastThreeNames(app) ==
    [i \in 1..3 |-> app.integrations[Len(app.integrations) - 3 + i].integration_name]

\* C24: within one pipeline run the status is IDENTITY_VERIFICATION when a
\* standard check is invoked and while it is awaited; the three results of
\* the standard checks are in the application when the status becomes
\* COMPLIANCE_REVIEW; the rules are evaluated on an application that holds
\* at least three integration results; risk_level and rules_applied are
\* stored when the final status is set
C24_StepOrder ==
    [][\A t \in Tasks : (req[t].op = "submit" /\ pc'[t] # pc[t]) =>
          /\ pc'[t] \in {"W310", "W329", "W348"} =>
                App(t).status = "IDENTITY_VERIFICATION"
          /\ (App(t).status # "COMPLIANCE_REVIEW"
                 /\ applications_db'[req[t].app].status = "COMPLIANCE_REVIEW") =>
                /\ Len(App(t).integrations) >= 3
                /\ LastThreeNames(App(t)) = StandardChecks
          /\ local'[t].rules_result # local[t].rules_result =>
                /\ App(t).status = "COMPLIANCE_REVIEW"
                /\ Len(App(t).integrations) >= 3
          /\ (App(t).status \notin FinalStatuses
                 /\ applications_db'[req[t].app].status \in FinalStatuses) =>
                /\ local[t].rules_result # NoRulesResult
                /\ App(t).risk_level = local[t].rules_result.risk_level
                /\ App(t).rules_applied = local[t].rules_result.triggered_rules
    ]_vars

\* a run has evaluated the rules and stored their result, and its final
\* status is not set yet
C24_Witness ==
    \E t \in Tasks :
        /\ req[t].op = "submit"
        /\ pc[t] = "L445"
        /\ App(t).status = "COMPLIANCE_REVIEW"
        /\ Len(App(t).integrations) = 3
        /\ App(t).rules_applied = local[t].rules_result.triggered_rules
        /\ App(t).rules_applied # <<>>

\* a task suspended in run_standard_checks or in check_credit
InIntegrationCall(t) == pc[t] \in {"W310", "W329", "W348", "W460"}

\* C25: a task that is suspended in an integration call does not hold
\* db_lock: the lock is free or another task has it
C25_DbLockFreeWhileWaiting ==
    \A t \in Tasks : InIntegrationCall(t) => db_lock # t

\* a run waits for the credit check while another request is inside its
\* "async with db_lock" block
C25_Witness ==
    \E t, u \in Tasks :
        /\ t # u
        /\ pc[t] = "W460"
        /\ db_lock = u
        /\ pc[u] = "L340"

\* the lines at which a task reads fields of its application: the reports
\* of validate and submit, the test of the status, the evaluation of the
\* rules
ReadLines == {"L336", "L364", "L368", "L437"}

\* C26: while an application is being processed, a step of any task that
\* reads or writes the application is made by a task that holds db_lock
C26_AccessUnderDbLock ==
    [][\A t \in Tasks :
          (/\ pc'[t] # pc[t]
           /\ req[t].app \in DOMAIN applications_db
           /\ \E u \in Tasks : ActiveRun(u, req[t].app)
           /\ \/ pc[t] \in ReadLines
              \/ applications_db'[req[t].app] # applications_db[req[t].app])
          => db_lock = t
    ]_vars

\* a task inside process_application that has not reached the end of its
\* finally clause
BeforeCleanup(t) ==
    /\ req[t].op \in {"submit", "process"}
    /\ pc[t] \in (GuardedLines \cup {"L403", "W403"}) \ {"L500"}

\* C27: when an invocation of process_application returns, on any of its
\* paths, it holds no lock and application_locks has no entry for its
\* application id; an entry of application_locks belongs to an invocation
\* that has not finished its cleanup
C27_LockDiscarded ==
    [][/\ \A t \in Tasks :
             (pc[t] = "L500" /\ pc'[t] = "done") =>
                 /\ req[t].app \notin DOMAIN application_locks'
                 /\ \A l \in LockIds : lock_owner'[l] # t
                 /\ local'[t].lock = NoLock
       /\ \A a \in DOMAIN application_locks' :
             \E t \in Tasks : req'[t].app = a /\ BeforeCleanup(t)'
    ]_vars

\* an invocation whose credit check raised has returned
C27_Witness ==
    \E t \in Tasks :
        /\ pc[t] = "done"
        /\ req[t].op = "process"
        /\ local[t].fault = "ValueError"
        /\ req[t].app \notin DOMAIN application_locks
        /\ \A l \in LockIds : lock_owner[l] # t

\* C28: as long as the engine holds its default rules, no evaluation says
\* can_auto_approve, and an application that is APPROVED was approved after
\* the credit check and has risk_level LOW or MEDIUM
C28_NoAutoApprovalByDefault ==
    rule_ops = 0 =>
        /\ \A t \in Tasks : ~local[t].rules_result.can_auto_approve
        /\ \A a \in DOMAIN applications_db :
              applications_db[a].status = "APPROVED" =>
                  /\ applications_db[a].decision_reason = "Approved after credit check"
                  /\ applications_db[a].risk_level \in {"LOW", "MEDIUM"}
                  /\ CreditChecks(applications_db[a]) # <<>>

\* an application with a risk score below 20 and its verifications recorded
\* is approved under the default rules
C28_Witness ==
    /\ rule_ops = 0
    /\ \E a \in DOMAIN applications_db :
          /\ applications_db[a].status = "APPROVED"
          /\ _calculate_risk_score(applications_db[a]) < 20 * 100
          /\ Len(applications_db[a].integrations) > 3

\* the application with the result of every standard check replaced by one
\* of the given status and error
WithCheckResults(app, status, error) ==
    [app EXCEPT !.integrations =
        [i \in 1..Len(app.integrations) |->
            IF \E j \in 1..Len(StandardChecks) :
                   app.integrations[i].integration_name = StandardChecks[j]
            THEN Integration(app.integrations[i].integration_name, status, error, NoScore)
            ELSE app.integrations[i]]]

\* lines 445-472 and 480-494 read as a function of the result of the rules,
\* the result of the credit check and the exception that left the try block
ExpectedOutcome(rules_result, credit_result, fault) ==
    LET branch == OutcomeBranch(rules_result, rules_result.risk_level)
    IN CASE branch = "L446" ->
              [status |-> "APPROVED", assigned_to |-> "None",
               decision_reason |-> "Auto-approved - low risk, all verifications passed"]
         [] branch = "L451" ->
              [status |-> "MANUAL_REVIEW",
               assigned_to |-> IF HasFraud(rules_result.next_action)
                               THEN "fraud_team" ELSE "review_team",
               decision_reason |-> "None"]
         [] branch = "L455" ->
              [status |-> "MANUAL_REVIEW", assigned_to |-> "senior_reviewer",
               decision_reason |-> "None"]
         [] OTHER ->
              IF fault # "None"
              THEN [status |-> "MANUAL_REVIEW", assigned_to |-> "None",
                    decision_reason |-> "None"]
              ELSE IF CreditPasses(credit_result)
              THEN [status |-> "APPROVED", assigned_to |-> "None",
                    decision_reason |-> "Approved after credit check"]
              ELSE [status |-> "MANUAL_REVIEW", assigned_to |-> "None",
                    decision_reason |-> "Credit score below threshold"]

\* C29: the result of the rules is the one the same application would get
\* with all three standard checks successful and with all three failed, and
\* when the run leaves the try block its status, risk_level, rules_applied,
\* assigned_to and decision_reason are determined by that result, the
\* result of the credit check and the exception raised, never by the
\* results of the standard checks
C29_OutcomeIgnoresChecks ==
    [][\A t \in Tasks : (req[t].op = "submit" /\ pc'[t] # pc[t]) =>
          /\ pc[t] = "L437" =>
                /\ local'[t].rules_result =
                       evaluate_application(WithCheckResults(App(t), "success", "None"), rules)
                /\ local'[t].rules_result =
                       evaluate_application(WithCheckResults(App(t), "failed", "Timeout"), rules)
          /\ pc'[t] = "L497" =>
                LET app == applications_db'[req[t].app]
                    outcome == ExpectedOutcome(local[t].rules_result,
                                               local[t].credit_result, local[t].fault)
                IN /\ app.status = outcome.status
                   /\ app.assigned_to = outcome.assigned_to
                   /\ app.decision_reason = outcome.decision_reason
                   /\ app.risk_level = local[t].rules_result.risk_level
                   /\ app.rules_applied = local[t].rules_result.triggered_rules
    ]_vars

\* a run whose three standard checks all failed has left the try block with
\* the application approved automatically
C29_Witness ==
    \E t \in Tasks :
        /\ req[t].op = "submit"
        /\ pc[t] = "L497"
        /\ Len(App(t).integrations) = 3
        /\ \A i \in 1..3 : App(t).integrations[i].status = "failed"
        /\ App(t).status = "APPROVED"
        /\ App(t).decision_reason = "Auto-approved - low risk, all verifications passed"

\* the values of ApplicationStatus that the program assigns
AssignedStatuses ==
    {"DRAFT", "SUBMITTED", "IDENTITY_VERIFICATION", "COMPLIANCE_REVIEW",
     "APPROVED", "MANUAL_REVIEW"}

\* C30: the status of every application is DRAFT, SUBMITTED,
\* IDENTITY_VERIFICATION, COMPLIANCE_REVIEW, APPROVED or MANUAL_REVIEW, never
\* REJECTED, DOCUMENT_REVIEW or CREDIT_CHECK
C30_StatusesAssigned ==
    \A a \in DOMAIN applications_db :
        /\ applications_db[a].status \in AssignedStatuses
        /\ applications_db[a].status \notin {"REJECTED", "DOCUMENT_REVIEW", "CREDIT_CHECK"}

\* a run has ended on the branch where the credit score is below the
\* threshold: the application is in MANUAL_REVIEW, not REJECTED
C30_Witness ==
    \E t \in Tasks :
        /\ req[t].op = "submit"
        /\ pc[t] = "done"
        /\ req[t].app \in DOMAIN applications_db
        /\ App(t).status = "MANUAL_REVIEW"
        /\ App(t).decision_reason = "Credit score below threshold"
        /\ App(t).completed_at = "set"

====
